---- MODULE Spec2Model ----
(***************************************************************************)
(* A model of the BRUCE web test platform back end: the two platform       *)
(* adapters (RealRobotAdapter over an SSH session, GazeboAdapter over      *)
(* local processes), the two command executors, the cross-platform        *)
(* fan-out of one test specification, and the PlatformAdapter base class.  *)
(*                                                                         *)
(* Python dicts are modelled as records whose DOMAIN is the dict's key     *)
(* set, so a result that lacks a key lacks the field.  Command strings     *)
(* are sequences of words, so that a substring test is a search.           *)
(* Outcomes of the outside world (the SSH server, paramiko, subprocess)    *)
(* are inputs drawn by each action.                                        *)
(***************************************************************************)
EXTENDS Integers, Sequences, FiniteSets, TLC

VARIABLES
    adapters,   \* platform name -> adapter object, or NoAdapter
    test,       \* platform name -> the execute_test coroutine in flight, if any
    ret,        \* what the most recent completed call returned, with its inputs
    executors,  \* executor name -> executor object (active_processes, counter)
    platform_adapters,  \* main.py's registry: platform name -> adapter object
    fanout,     \* the cross-platform run in flight, if any
    data_storage    \* the table test_results: row -> number of copies

vars == <<adapters, test, ret, executors, platform_adapters, fanout, data_storage>>

----------------------------------------------------------------------------
(* Bounds of the model *)

\* Longest step list of a test specification.
MaxSteps == 2

\* Number of distinct clock readings datetime.now() can return.
MaxTime == 2

----------------------------------------------------------------------------
(* Values *)

Platforms == {"real_robot", "gazebo"}

\* self.last_update = None
NoTime == 0

Times == 1..MaxTime

\* A clock reading not earlier than the adapter's last one.
Now(self) == {t \in Times : t >= self.last_update}

NoAdapter == [kind |-> "none"]

\* dict.get(key, default)
Get(d, key, default) == IF key \in DOMAIN d THEN d[key] ELSE default

\* {} : the dict without keys
EmptyDict == << >>

\* The command strings used, as word sequences.
CmdEcho == <<"echo", "ok">>
CmdInit == <<"cd", "bruce_home", "&&", "timeout", "300s", "./init.sh">>
NoCommand == << >>
Commands == {CmdEcho, CmdInit}

\* Python's  needle in command  for a one-word needle.
Contains(command, needle) == \E i \in DOMAIN command : command[i] = needle

\* Exit codes a finished process can report (recv_exit_status gives -1 when
\* the channel closed without a status).
ExitCodes == {0, 1, -1}

----------------------------------------------------------------------------
(* Adapter construction: RealRobotAdapter.__init__, GazeboAdapter.__init__ *)

\* The configuration dicts: enabled, simulation_mode and, for the real
\* robot, whether connection.host is set.
Configs(p) ==
    IF p = "real_robot"
    THEN [enabled : BOOLEAN, simulation_mode : BOOLEAN, host : BOOLEAN]
    ELSE [enabled : BOOLEAN, simulation_mode : BOOLEAN]

RealRobotAdapter(config) ==
    [kind |-> "real_robot",
     name |-> "BRUCE",              \* config.get('name', 'BRUCE实机')
     enabled |-> config.enabled,
     host |-> config.host,
     is_connected |-> FALSE,
     last_update |-> NoTime,
     simulation_mode |-> config.simulation_mode,
     ssh_client |-> FALSE]          \* hasattr(self, 'ssh_client')

GazeboAdapter(config) ==
    [kind |-> "gazebo",
     name |-> "Gazebo",             \* config.get('name', 'Gazebo仿真')
     enabled |-> config.enabled,
     is_connected |-> FALSE,
     last_update |-> NoTime,
     simulation_mode |-> config.simulation_mode,
     gazebo_process |-> "none"]     \* None | a running Popen | an exited Popen

NewAdapter(p, config) ==
    IF p = "real_robot" THEN RealRobotAdapter(config) ELSE GazeboAdapter(config)

----------------------------------------------------------------------------
(* connect *)

\* What the SSH side does during RealRobotAdapter.connect:
\*   import_error    paramiko is not installed
\*   connect_raises  client.connect raises (refused, auth, timeout)
\*   probe_raises    the echo probe raises
\*   probe_mismatch  the echo probe answers something else
\*   ok              handshake and probe succeed
SshConnectEnvs ==
    {"import_error", "connect_raises", "probe_raises", "probe_mismatch", "ok"}

\* What  which gazebo  does during GazeboAdapter.connect.
WhichEnvs == {"found", "not_found", "timeout", "error"}

ConnectEnvs(self) == IF self.kind = "real_robot" THEN SshConnectEnvs ELSE WhichEnvs

\* A simulated connect that leaves the timestamp alone.
SimulatedConnect_NoTimestamp(self, t, calls) ==
    [self |-> [self EXCEPT !.is_connected = TRUE],
     value |-> TRUE, calls |-> calls, client |-> "none"]

\* The simulated branch shared by both adapters.
SimulatedConnect(self, t, calls) ==
    [self |-> [self EXCEPT !.is_connected = TRUE, !.last_update = t],
     value |-> TRUE, calls |-> calls, client |-> "none"]

\* What has become of the paramiko client of lines 69-82 when the handler
\* of line 97 takes over: client.connect raised and no session was opened,
\* or the session is open and the echo probe raised; the handler closes
\* nothing.
ClientAfterException(env) ==
    IF env = "connect_raises" THEN "never_opened" ELSE "left_open"

RECURSIVE RealRobotAdapter_connect(_, _, _, _)
RealRobotAdapter_connect(self, env, t, calls) ==
    IF ~self.enabled THEN [self |-> self, value |-> FALSE, calls |-> calls, client |-> "none"]
    ELSE IF self.simulation_mode THEN SimulatedConnect(self, t, calls)
    ELSE IF env = "import_error" THEN
        RealRobotAdapter_connect([self EXCEPT !.simulation_mode = TRUE], env, t, calls + 1)
    ELSE IF ~self.host THEN [self |-> self, value |-> FALSE, calls |-> calls, client |-> "none"]
    ELSE IF env \in {"connect_raises", "probe_raises"} THEN
        [RealRobotAdapter_connect([self EXCEPT !.simulation_mode = TRUE], env, t, calls + 1)
            EXCEPT !.client = ClientAfterException(env)]
    ELSE IF env = "ok" THEN
        [self |-> [self EXCEPT !.is_connected = TRUE, !.last_update = t,
                               !.ssh_client = TRUE],
         value |-> TRUE, calls |-> calls, client |-> "stored"]
    ELSE [self |-> self, value |-> FALSE, calls |-> calls, client |-> "closed"]

RECURSIVE GazeboAdapter_connect(_, _, _, _)

\* A connect whose fallback tries the real mode a second time before it
\* switches to simulation.
GazeboAdapter_connect_RetryingFirst(self, env, t, calls) ==
    IF ~self.enabled THEN [self |-> self, value |-> FALSE, calls |-> calls, client |-> "none"]
    ELSE IF self.simulation_mode THEN SimulatedConnect(self, t, calls)
    ELSE IF env = "found" THEN
        [self |-> [self EXCEPT !.is_connected = TRUE, !.last_update = t],
         value |-> TRUE, calls |-> calls, client |-> "none"]
    ELSE IF calls < 2 THEN GazeboAdapter_connect(self, env, t, calls + 1)
    ELSE GazeboAdapter_connect([self EXCEPT !.simulation_mode = TRUE], env, t, calls + 1)

GazeboAdapter_connect(self, env, t, calls) ==
    IF ~self.enabled THEN [self |-> self, value |-> FALSE, calls |-> calls, client |-> "none"]
    ELSE IF self.simulation_mode THEN SimulatedConnect(self, t, calls)
    ELSE IF env = "found" THEN
        [self |-> [self EXCEPT !.is_connected = TRUE, !.last_update = t],
         value |-> TRUE, calls |-> calls, client |-> "none"]
    ELSE GazeboAdapter_connect([self EXCEPT !.simulation_mode = TRUE], env, t, calls + 1)

connect(self, env, t) ==
    IF self.kind = "real_robot" THEN RealRobotAdapter_connect(self, env, t, 1)
    ELSE GazeboAdapter_connect(self, env, t, 1)

----------------------------------------------------------------------------
(* disconnect *)

\* A disconnect that marks the adapter disconnected and keeps the session.
RealRobotAdapter_disconnect_KeepingSession(self, t) ==
    [self |-> [self EXCEPT !.is_connected = FALSE, !.last_update = t],
     value |-> TRUE]

RealRobotAdapter_disconnect(self, t) ==
    [self |-> [self EXCEPT !.ssh_client = FALSE, !.is_connected = FALSE,
                           !.last_update = t],
     value |-> TRUE]

\* A disconnect that also puts the adapter back into real mode.
GazeboAdapter_disconnect_ResettingMode(self, t) ==
    [self |-> [self EXCEPT !.gazebo_process = "none", !.is_connected = FALSE,
                           !.last_update = t, !.simulation_mode = FALSE],
     value |-> TRUE]

GazeboAdapter_disconnect(self, t) ==
    [self |-> [self EXCEPT !.gazebo_process = "none", !.is_connected = FALSE,
                           !.last_update = t],
     value |-> TRUE]

disconnect(self, t) ==
    IF self.kind = "real_robot" THEN RealRobotAdapter_disconnect(self, t)
    ELSE GazeboAdapter_disconnect(self, t)

----------------------------------------------------------------------------
(* get_status *)

\* What the status query meets: the  uptime  probe on the SSH session
\* answers or raises; the simulator process, when poll() is asked, is still
\* running or has exited.
StatusEnvs == [uptime : {"ok", "raises"}, poll : {"running", "exited"}]

\* The part of the status record both adapters build first.
BaseStatus(self) ==
    [connected |-> self.is_connected,
     name |-> self.name,
     last_update |-> self.last_update,     \* isoformat(), or None
     mode |-> IF self.simulation_mode THEN "simulation" ELSE "real"]

\* A get_status whose uptime probe has no exception handler.
RealRobotAdapter_get_status_Unguarded(self, env) ==
    IF ~self.simulation_mode /\ self.is_connected /\ self.ssh_client
    THEN IF env.uptime = "ok"
         THEN [raised |-> FALSE, value |-> BaseStatus(self) @@ [uptime |-> "up"]]
         ELSE [raised |-> TRUE]
    ELSE [raised |-> FALSE, value |-> BaseStatus(self)]

RealRobotAdapter_get_status(self, env) ==
    IF ~self.simulation_mode /\ self.is_connected /\ self.ssh_client
    THEN [raised |-> FALSE,
          value |-> BaseStatus(self) @@
              [uptime |-> IF env.uptime = "ok" THEN "up" ELSE "N/A"]]
    ELSE [raised |-> FALSE, value |-> BaseStatus(self)]

GazeboAdapter_get_status(self, env) ==
    IF ~self.simulation_mode /\ self.gazebo_process # "none"
    THEN IF self.gazebo_process = "running" /\ env.poll = "running"
         THEN [raised |-> FALSE,
               value |-> BaseStatus(self) @@
                   [gazebo_running |-> TRUE, gazebo_pid |-> "process"]]
         ELSE [raised |-> FALSE,
               value |-> BaseStatus(self) @@ [gazebo_running |-> FALSE]]
    ELSE [raised |-> FALSE, value |-> BaseStatus(self)]

get_status(self, env) ==
    IF self.kind = "real_robot" THEN RealRobotAdapter_get_status(self, env)
    ELSE GazeboAdapter_get_status(self, env)

----------------------------------------------------------------------------
(* start_gazebo *)

\* What launching the simulator meets: Popen raises, the process is still
\* running after the five seconds' wait, or it has exited by then.
StartEnvs == {"popen_raises", "running", "exited"}

GazeboAdapter_start_gazebo(self, env) ==
    IF self.simulation_mode
    THEN [self |-> self, result |-> [success |-> TRUE, pid |-> "simulated"]]
    ELSE IF env = "popen_raises"
    THEN [self |-> self, result |-> [success |-> FALSE]]
    ELSE IF env = "running"
    THEN [self |-> [self EXCEPT !.gazebo_process = "running"],
          result |-> [success |-> TRUE, pid |-> "process"]]
    ELSE [self |-> [self EXCEPT !.gazebo_process = "exited"],
          result |-> [success |-> FALSE]]

----------------------------------------------------------------------------
(* execute_command *)

\* The result dicts.  The command and timestamp keys are left out; error
\* and output are tags for the source's texts:
\*   not_connected     "未连接到实机"
\*   reconnect_failed  "重新连接失败"
\*   timeout           "命令执行超时"
\*   exception         str(e)
\*   running           "脚本执行中..."
\*   simulated         "模拟执行: <command>"
CommandResult(success, return_code, output, error) ==
    [success |-> success, return_code |-> return_code,
     output |-> output, error |-> error]

\* The  except Exception  handlers of both adapters.
ExceptionResult == CommandResult(FALSE, -1, "", "exception")

SimulatedResult == CommandResult(TRUE, 0, "simulated", "")

\* "./init.sh" in command
IsInitCommand(command) == Contains(command, "./init.sh")

\* What the SSH session does while a command runs.
\*   exec    self.ssh_client.exec_command: "ok", "raises" or "timeout"
\*   wait    the polling loop of an init command ends because the exit
\*           status is "ready" or because 300 s have passed ("deadline")
\*   read    stdout.read() of a normal command: "ok", "raises", "timeout"
\*   status  recv_exit_status: "returns" code, or "raises"
RunEnv(exec, wait, read, status, code) ==
    [exec |-> exec, wait |-> wait, read |-> read, status |-> status, code |-> code]

RunEnvs(command) ==
    { RunEnv(e, "ready", "ok", "returns", 0) : e \in {"raises", "timeout"} }
    \cup
    ( IF IsInitCommand(command)
      THEN { RunEnv("ok", w, "ok", "returns", c) :
                 w \in {"ready", "deadline"}, c \in ExitCodes }
           \cup { RunEnv("ok", w, "ok", "raises", 0) : w \in {"ready", "deadline"} }
      ELSE { RunEnv("ok", "ready", "ok", "returns", c) : c \in ExitCodes }
           \cup { RunEnv("ok", "ready", r, "returns", 0) : r \in {"raises", "timeout"} } )

\* The liveness probe  echo "alive"  and, when it fails, what the reconnect
\* meets.
ProbeEnvs ==
    { [probe |-> "alive", reconnect |-> "ok"] }
    \cup [probe : {"mismatch", "raises"}, reconnect : SshConnectEnvs]

\* Whether the run timed out: the init polling loop passed its deadline, or
\* a call on the channel raised socket.timeout.
TimedOut(command, run) ==
    \/ run.exec = "timeout"
    \/ run.exec = "ok" /\ IsInitCommand(command) /\ run.wait = "deadline"
    \/ run.exec = "ok" /\ ~IsInitCommand(command) /\ run.read = "timeout"

\* Lines 203-260: the init branch.  Every exception inside it, a missing
\* ssh_client attribute included, is caught and the exit code set to 0.
RunInitCommand(self, run) ==
    IF ~self.ssh_client THEN
        [result |-> CommandResult(TRUE, 0, "running", "exception"), events |-> << >>]
    ELSE IF run.exec # "ok" THEN
        [result |-> CommandResult(TRUE, 0, "running", "exception"),
         events |-> <<"exec">>]
    ELSE LET return_code == IF run.status = "raises" THEN 0 ELSE run.code
         IN  [result |-> CommandResult(return_code = 0, return_code, "", ""),
              events |-> <<"exec">>]

\* Lines 261-272: a normal command.  The module never imports socket, so
\* when stdout.read() raises, evaluating  except socket.timeout  raises
\* NameError and the outer handler answers.
RunNormalCommand(self, run) ==
    IF ~self.ssh_client THEN [result |-> ExceptionResult, events |-> << >>]
    ELSE IF run.exec # "ok" THEN [result |-> ExceptionResult, events |-> <<"exec">>]
    ELSE IF run.read # "ok" THEN [result |-> ExceptionResult, events |-> <<"exec">>]
    ELSE [result |-> CommandResult(run.code = 0, run.code, "", ""),
          events |-> <<"exec">>]

RunCommand(self, command, run) ==
    IF IsInitCommand(command) THEN RunInitCommand(self, run)
    ELSE RunNormalCommand(self, run)

\* A recovery that tries the reconnect a second time when the first fails.
Recover_Retrying(self, env, t) ==
    IF env.probe = "alive" THEN [self |-> self, value |-> TRUE, events |-> <<"probe">>]
    ELSE LET d == RealRobotAdapter_disconnect(self, t)
             c == RealRobotAdapter_connect(d.self, env.reconnect, t, 1)
             d2 == RealRobotAdapter_disconnect(c.self, t)
             c2 == RealRobotAdapter_connect(d2.self, env.reconnect, t, 1)
         IN  IF c.value
             THEN [self |-> c.self, value |-> TRUE,
                   events |-> <<"probe", "disconnect", "connect">>]
             ELSE [self |-> c2.self, value |-> c2.value,
                   events |-> <<"probe", "disconnect", "connect", "disconnect", "connect">>]

\* Lines 182-201: the pre-flight probe and the reconnect it triggers.
\* value is FALSE when the reconnect did not succeed.
Recover(self, env, t) ==
    IF env.probe = "alive" THEN [self |-> self, value |-> TRUE, events |-> <<"probe">>]
    ELSE LET d == RealRobotAdapter_disconnect(self, t)
             c == RealRobotAdapter_connect(d.self, env.reconnect, t, 1)
         IN  [self |-> c.self, value |-> c.value,
              events |-> <<"probe", "disconnect", "connect">>]

RealRobotAdapter_execute_command(self, command, env, t) ==
    IF self.simulation_mode THEN
        [self |-> self, result |-> SimulatedResult, events |-> << >>]
    ELSE IF ~self.is_connected \/ ~self.ssh_client THEN
        [self |-> self, result |-> CommandResult(FALSE, -1, "", "not_connected"),
         events |-> << >>]
    ELSE LET r == Recover(self, env, t) IN
         IF ~r.value THEN
            [self |-> r.self,
             result |-> CommandResult(FALSE, -1, "", "reconnect_failed"),
             events |-> r.events]
         ELSE LET x == RunCommand(r.self, command, env.run)
              IN  [self |-> r.self, result |-> x.result,
                   events |-> r.events \o x.events]

\* What subprocess.run does: "returns" code, "timeout" or "raises".
GazeboAdapter_execute_command(self, command, env, t) ==
    IF self.simulation_mode THEN
        [self |-> self, result |-> SimulatedResult, events |-> << >>]
    ELSE IF env.run.exec = "timeout" THEN
        \* subprocess.run kills the child before it raises TimeoutExpired
        [self |-> self, result |-> CommandResult(FALSE, -1, "", "timeout"),
         events |-> <<"exec", "kill">>]
    ELSE IF env.run.exec = "raises" THEN
        [self |-> self, result |-> ExceptionResult, events |-> <<"exec">>]
    ELSE [self |-> self,
          result |-> CommandResult(env.run.code = 0, env.run.code, "", ""),
          events |-> <<"exec">>]

execute_command(self, command, env, t) ==
    IF self.kind = "real_robot"
    THEN RealRobotAdapter_execute_command(self, command, env, t)
    ELSE GazeboAdapter_execute_command(self, command, env, t)

\* The answers of a world nobody asks.
QuietEnv == [probe |-> "alive", reconnect |-> "ok",
             run |-> RunEnv("ok", "ready", "ok", "returns", 0)]

\* Whether execute_command returns before it touches the backend.
ReturnsEarly(self) ==
    \/ self.simulation_mode
    \/ self.kind = "real_robot" /\ (~self.is_connected \/ ~self.ssh_client)

\* The outside world's answers one execute_command call can meet.
CommandEnvs(self, command) ==
    IF ReturnsEarly(self) THEN {QuietEnv}
    ELSE IF self.kind = "real_robot"
    THEN { [probe |-> p.probe, reconnect |-> p.reconnect, run |-> r] :
               p \in ProbeEnvs, r \in RunEnvs(command) }
    ELSE { [probe |-> "alive", reconnect |-> "ok", run |-> r] :
               r \in { RunEnv(e, "ready", "ok", "returns", 0) : e \in {"raises", "timeout"} }
                     \cup { RunEnv("ok", "ready", "ok", "returns", c) : c \in ExitCodes } }

----------------------------------------------------------------------------
(* execute_test: one coroutine per call, one loop iteration per step *)

\* Step dicts.  The adapters read the key 'command'; the test documents of
\* the specification give each step a list under 'commands'.
StepWithCommand(command) == [name |-> "run", command |-> command]
StepWithCommands(commands) == [name |-> "boot", commands |-> commands]

Steps == { StepWithCommand(CmdEcho), StepWithCommands(<<CmdEcho>>) }

RECURSIVE SeqsUpTo(_, _)
SeqsUpTo(S, n) ==
    IF n = 0 THEN { << >> }
    ELSE LET shorter == SeqsUpTo(S, n - 1)
         IN  shorter \cup { Append(q, x) : q \in {r \in shorter : Len(r) = n - 1}, x \in S }

\* The test_config dicts: with a 'steps' list, or without the key.
TestConfigs ==
    { [test_id |-> "t1", steps |-> q] : q \in SeqsUpTo(Steps, MaxSteps) }
    \cup { [test_id |-> "t1"] }

\* test_config.get('steps', [the default step])
StepsOf(test_config) ==
    IF "steps" \in DOMAIN test_config THEN test_config.steps
    ELSE << [name |-> "default", command |-> <<"echo", "Running", "test">>] >>

\* step.get('command', '')
CommandOf(step) == IF "command" \in DOMAIN step THEN step.command ELSE NoCommand

\* Whether the loop body sends a command for this step (if command:).
HasCommand(step) == CommandOf(step) # NoCommand

\* The entry the loop appends for a step that ran a command, and for one
\* that has none.
StepEntry(step, result) ==
    [step |-> step.name, success |-> result.success, result |-> result]

\* An entry that counts a step without a command as failed.
SkippedEntry_Failed(step) ==
    [step |-> step.name, success |-> FALSE, result |-> [message |-> "skipped"]]

SkippedEntry(step) ==
    [step |-> step.name, success |-> TRUE, result |-> [message |-> "skipped"]]

\* A count that takes every entry for a successful one.
CountSuccessful_All(results) == Len(results)

\* Number of entries with success true.
RECURSIVE CountSuccessful(_)
CountSuccessful(results) ==
    IF results = << >> THEN 0
    ELSE (IF Head(results).success THEN 1 ELSE 0) + CountSuccessful(Tail(results))

\* successful_steps / total_steps if total_steps > 0 else 0, as a fraction.
SuccessRate(successful_steps, total_steps) ==
    IF total_steps > 0 THEN [num |-> successful_steps, den |-> total_steps]
    ELSE [num |-> 0, den |-> 1]

\* A summary whose success flag asks only for one successful step.
TestSummary_AnyStep(self, test_config, results) ==
    LET successful_steps == CountSuccessful(results)
        total_steps == Len(results)
    IN  [test_id |-> Get(test_config, "test_id", "unknown"),
         platform |-> self.name,
         success |-> successful_steps > 0 \/ total_steps = 0,
         results |-> results,
         summary |-> [total_steps |-> total_steps,
                      successful_steps |-> successful_steps,
                      success_rate |-> SuccessRate(successful_steps, total_steps)]]

\* Lines 336-352: the summary dict execute_test returns.
TestSummary(self, test_config, results) ==
    LET successful_steps == CountSuccessful(results)
        total_steps == Len(results)
    IN  [test_id |-> Get(test_config, "test_id", "unknown"),
         platform |-> self.name,
         success |-> successful_steps = total_steps,
         results |-> results,
         summary |-> [total_steps |-> total_steps,
                      successful_steps |-> successful_steps,
                      success_rate |-> SuccessRate(successful_steps, total_steps)]]

\* Whether the loop goes on to the next step after appending an entry.
ContinuesAfter(entry) == TRUE

Idle == [active |-> FALSE]

\* Lines 318-334: one iteration of  for step in steps  on the coroutine's
\* locals run, with the adapter it leaves behind.
LoopIteration(self, run, env, t) ==
    LET step == Head(run.left) IN
    IF HasCommand(step) THEN
        LET x == execute_command(self, CommandOf(step), env, t)
            entry == StepEntry(step, x.result)
        IN  [self |-> x.self,
             run |-> [run EXCEPT
                 !.left = IF ContinuesAfter(entry) THEN Tail(run.left) ELSE << >>,
                 !.results = Append(run.results, entry),
                 !.calls = Append(run.calls, CommandOf(step))]]
    ELSE [self |-> self,
          run |-> [run EXCEPT !.left = Tail(run.left),
                              !.results = Append(run.results, SkippedEntry(step))]]

\* The answers of the outside world the next iteration can meet.
IterationEnvs(self, run) ==
    IF HasCommand(Head(run.left)) THEN CommandEnvs(self, CommandOf(Head(run.left)))
    ELSE {QuietEnv}

\* The coroutine's locals: the configuration, the steps left, the entries so far.
Running(test_config, left, results) ==
    [active |-> TRUE, config |-> test_config, left |-> left, results |-> results,
     calls |-> << >>]    \* the commands handed to execute_command so far

NoFanout == [active |-> FALSE, handler |-> "none", started |-> FALSE]

----------------------------------------------------------------------------
(* The adapter methods as actions on one adapter object *)

Live(p) == adapters[p] # NoAdapter

Free(p) == Live(p) /\ ~test[p].active /\ ~fanout.active

Connect(p) ==
    /\ Free(p)
    /\ \E env \in ConnectEnvs(adapters[p]), t \in Now(adapters[p]) :
        LET c == connect(adapters[p], env, t) IN
        /\ adapters' = [adapters EXCEPT ![p] = c.self]
        /\ ret' = [op |-> "connect", platform |-> p, before |-> adapters[p],
                   env |-> env, t |-> t, value |-> c.value, calls |-> c.calls,
                   client |-> c.client]
    /\ UNCHANGED <<test, executors, platform_adapters, fanout, data_storage>>

Disconnect(p) ==
    /\ Free(p)
    /\ \E t \in Now(adapters[p]) :
        LET d == disconnect(adapters[p], t) IN
        /\ adapters' = [adapters EXCEPT ![p] = d.self]
        /\ ret' = [op |-> "disconnect", platform |-> p, before |-> adapters[p],
                   t |-> t, value |-> d.value,
                   previous |-> IF ret.op # "disconnect" THEN "other"
                                ELSE IF ret.value THEN "disconnect_true"
                                ELSE "disconnect_false"]
    /\ UNCHANGED <<test, executors, platform_adapters, fanout, data_storage>>

GetStatus(p) ==
    /\ Free(p)
    /\ \E env \in StatusEnvs :
        ret' = [op |-> "get_status", platform |-> p, before |-> adapters[p],
                env |-> env, status |-> get_status(adapters[p], env)]
    /\ UNCHANGED <<adapters, test, executors, platform_adapters, fanout, data_storage>>

StartGazebo(p) ==
    /\ Free(p) /\ adapters[p].kind = "gazebo"
    /\ \E env \in StartEnvs :
        LET g == GazeboAdapter_start_gazebo(adapters[p], env) IN
        /\ adapters' = [adapters EXCEPT ![p] = g.self]
        /\ ret' = [op |-> "start_gazebo", platform |-> p, before |-> adapters[p],
                   env |-> env, result |-> g.result]
    /\ UNCHANGED <<test, executors, platform_adapters, fanout, data_storage>>

ExecuteCommand(p) ==
    /\ Free(p)
    /\ \E command \in Commands, t \in Now(adapters[p]) :
       \E env \in CommandEnvs(adapters[p], command) :
        LET x == execute_command(adapters[p], command, env, t) IN
        /\ adapters' = [adapters EXCEPT ![p] = x.self]
        /\ ret' = [op |-> "execute_command", platform |-> p, before |-> adapters[p],
                   command |-> command, env |-> env, t |-> t,
                   result |-> x.result, events |-> x.events]
    /\ UNCHANGED <<test, executors, platform_adapters, fanout, data_storage>>

\* execute_test is called: the coroutine starts with an empty result list.
ExecuteTestCall(p) ==
    /\ Free(p)
    /\ \E test_config \in TestConfigs :
        /\ test' = [test EXCEPT ![p] = Running(test_config, StepsOf(test_config), << >>)]
        /\ ret' = [op |-> "execute_test_call", platform |-> p]
    /\ UNCHANGED <<adapters, executors, platform_adapters, fanout, data_storage>>

\* One iteration of  for step in steps.
ExecuteTestStep(p) ==
    /\ Live(p) /\ test[p].active /\ ~fanout.active
    /\ test[p].left # << >>
    /\ \E t \in Now(adapters[p]) :
       \E env \in IterationEnvs(adapters[p], test[p]) :
         LET x == LoopIteration(adapters[p], test[p], env, t) IN
         /\ adapters' = [adapters EXCEPT ![p] = x.self]
         /\ test' = [test EXCEPT ![p] = x.run]
    /\ UNCHANGED <<ret, executors, platform_adapters, fanout, data_storage>>

\* The loop is over: the summary is computed and returned.
ExecuteTestReturn(p) ==
    /\ Live(p) /\ test[p].active /\ ~fanout.active
    /\ test[p].left = << >>
    /\ ret' = [op |-> "execute_test", platform |-> p, raised |-> FALSE,
               config |-> test[p].config, calls |-> test[p].calls,
               value |-> TestSummary(adapters[p], test[p].config, test[p].results)]
    /\ test' = [test EXCEPT ![p] = Idle]
    /\ UNCHANGED <<adapters, executors, platform_adapters, fanout, data_storage>>

\* An exception escapes the loop (execute_test has no handler of its own):
\* the coroutine ends without a summary.
ExecuteTestRaises(p) ==
    /\ Live(p) /\ test[p].active /\ ~fanout.active
    /\ test[p].left # << >>
    /\ ret' = [op |-> "execute_test", platform |-> p, raised |-> TRUE,
               config |-> test[p].config]
    /\ test' = [test EXCEPT ![p] = Idle]
    /\ UNCHANGED <<adapters, executors, platform_adapters, fanout, data_storage>>

----------------------------------------------------------------------------
(* The specification of one adapter object *)

\* One adapter of either class has been constructed from a configuration;
\* nothing has been called yet.
Init ==
    /\ \E p \in Platforms : \E config \in Configs(p) :
          adapters = [q \in Platforms |-> IF q = p THEN NewAdapter(p, config) ELSE NoAdapter]
    /\ test = [q \in Platforms |-> Idle]
    /\ ret = [op |-> "none"]
    /\ executors = << >>
    /\ platform_adapters = << >>
    /\ fanout = NoFanout
    /\ data_storage = EmptyDict

Next ==
    \E p \in Platforms :
        \/ Connect(p)
        \/ Disconnect(p)
        \/ GetStatus(p)
        \/ StartGazebo(p)
        \/ ExecuteCommand(p)
        \/ ExecuteTestCall(p)
        \/ ExecuteTestStep(p)
        \/ ExecuteTestReturn(p)
        \/ ExecuteTestRaises(p)

Spec == Init /\ [][Next]_vars

----------------------------------------------------------------------------
(* Claims about one adapter object *)

\* How often an event occurs in the event list of a call.
Count(events, e) == Cardinality({i \in DOMAIN events : events[i] = e})

ReturnedSummary == ret.op = "execute_test" /\ ~ret.raised

ReturnedCommand == ret.op = "execute_command"

\* The adapter the last call was made on, as the call left it.
After == adapters[ret.platform]

\* C1: the summary of execute_test holds entries for exactly the steps up to
\* and including the first failing one: every entry answers the step at its
\* position, no entry follows a failed entry, steps are missing only after a
\* failed entry, and a failed entry makes the overall success false.
C1_FailFastAtStepLevel ==
    ReturnedSummary =>
        LET results == ret.value.results
            steps == StepsOf(ret.config)
        IN  /\ Len(results) <= Len(steps)
            /\ \A i \in DOMAIN results : results[i].step = steps[i].name
            /\ \A i \in DOMAIN results : ~results[i].success => i = Len(results)
            /\ Len(results) < Len(steps) => ~results[Len(results)].success
            /\ (\E i \in DOMAIN results : ~results[i].success) => ~ret.value.success

\* C2: in every summary execute_test returns, the overall success flag is
\* true exactly when every step entry has success true.
C2_OverallSuccessIffAllSteps ==
    ReturnedSummary =>
        (ret.value.success <=>
            \A i \in DOMAIN ret.value.results : ret.value.results[i].success)

\* A summary of two entries, the first one failed, whose overall flag is false.
C2_Witness ==
    /\ ReturnedSummary
    /\ Len(ret.value.results) = 2
    /\ ~ret.value.results[1].success
    /\ ret.value.results[2].success
    /\ ~ret.value.success

\* C4: connect on an adapter that is not connected, not configured for
\* simulation, and whose backend session cannot be established returns
\* false, leaves the adapter disconnected and does not switch it to
\* simulation mode.
C4_FailedConnectStaysDisconnected ==
    ( /\ ret.op = "connect"
      /\ ~ret.before.is_connected
      /\ ~ret.before.simulation_mode
      /\ ret.env \notin {"ok", "found"} )
    => /\ ret.value = FALSE
       /\ ~After.is_connected
       /\ ~After.simulation_mode

C5_CycleFailed ==
    /\ ReturnedCommand /\ ret.platform = "real_robot"
    /\ ret.events = <<"probe", "disconnect", "connect">>
    /\ ret.result.error = "reconnect_failed"

\* The pre-flight probe of the call was reached and failed.
ProbeFailed == ReturnedCommand /\ Count(ret.events, "probe") = 1 /\ ret.env.probe # "alive"

\* C6: when the probe finds the session dropped and the reconnect does not
\* re-establish the real session, the call returns the "reconnect failed"
\* error with success false and exit code -1, and the command is not sent.
C6_ReconnectFailedResult ==
    (ProbeFailed /\ ret.env.reconnect # "ok") =>
        /\ ret.result.error = "reconnect_failed"
        /\ ~ret.result.success
        /\ ret.result.return_code = -1
        /\ Count(ret.events, "exec") = 0

\* C7: execute_command on an adapter that is not connected returns a failure
\* with the not-connected reason and does not run the command.
C7_NotConnectedIsRefused ==
    (ReturnedCommand /\ ~ret.before.is_connected) =>
        /\ ~ret.result.success
        /\ ret.result.error = "not_connected"
        /\ Count(ret.events, "exec") = 0

\* The command of the last call was sent to a live real session.
RanOnSession ==
    /\ ReturnedCommand /\ ret.platform = "real_robot"
    /\ Count(ret.events, "exec") = 1

\* C8: on the real-robot adapter, an init command that exceeds its timeout
\* yields success true with exit code 0, and a normal command that exceeds
\* its timeout yields success false with exit code -1.
C8_TimeoutLeniency ==
    (RanOnSession /\ TimedOut(ret.command, ret.env.run)) =>
        IF IsInitCommand(ret.command)
        THEN ret.result.success /\ ret.result.return_code = 0
        ELSE ~ret.result.success /\ ret.result.return_code = -1

----------------------------------------------------------------------------
(* The command executors: LocalExecutor and SSHExecutor *)

\* Most background launches one run of the executors makes.
MaxLaunches == 2

\* Texts a command can print, as character sequences: two process ids and a
\* text that is no number.
Stdouts == { <<"7">>, <<"1", "2">>, <<"n", "o">> }

Digits == {"0", "1", "2", "3", "4", "5", "6", "7", "8", "9"}

\* str.isdigit(): not empty, and every character a digit.
IsDigit(text) == text # << >> /\ \A i \in DOMAIN text : text[i] \in Digits

DigitValue(c) ==
    CASE c = "0" -> 0 [] c = "1" -> 1 [] c = "2" -> 2 [] c = "3" -> 3 [] c = "4" -> 4
      [] c = "5" -> 5 [] c = "6" -> 6 [] c = "7" -> 7 [] c = "8" -> 8 [] c = "9" -> 9

\* int(text) for a text of digits.
RECURSIVE ParseInt(_)
ParseInt(text) ==
    IF text = << >> THEN 0
    ELSE ParseInt(SubSeq(text, 1, Len(text) - 1)) * 10 + DigitValue(text[Len(text)])

DigitOf(n) ==
    CASE n = 0 -> "0" [] n = 1 -> "1" [] n = 2 -> "2" [] n = 3 -> "3" [] n = 4 -> "4"
      [] n = 5 -> "5" [] n = 6 -> "6" [] n = 7 -> "7" [] n = 8 -> "8" [] n = 9 -> "9"

\* str(n) for a natural number n.
RECURSIVE Str(_)
Str(n) == IF n < 10 THEN << DigitOf(n) >> ELSE Append(Str(n \div 10), DigitOf(n % 10))

\* What the process or the channel does while execute waits:
\*   "raises"   spawning or exec_command (or a later read) raises
\*   "timeout"  the command is still running when the timeout expires
\*   "exits"    the command ends with code and stdout
ExecEnvs ==
    { [outcome |-> o, code |-> 0, stdout |-> << >>] : o \in {"raises", "timeout"} }
    \cup [outcome : {"exits"}, code : ExitCodes, stdout : Stdouts]

LocalExecutor == [kind |-> "local", active_processes |-> << >>]

SSHExecutor == [kind |-> "ssh", process_counter |-> 0, active_processes |-> << >>]

\* LocalExecutor.execute: the result dict and what happened to the process.
LocalExecutor_execute(command, env) ==
    IF env.outcome = "raises" THEN
        [result |-> [success |-> FALSE, error |-> "exception", command |-> command],
         events |-> << >>]
    ELSE IF env.outcome = "timeout" THEN
        [result |-> [success |-> FALSE, error |-> "timeout", command |-> command],
         events |-> <<"spawn", "kill", "wait">>]
    ELSE
        [result |-> [success |-> env.code = 0, return_code |-> env.code,
                     stdout |-> env.stdout, stderr |-> << >>, command |-> command],
         events |-> <<"spawn", "exit">>]

\* SSHExecutor.execute.
SSHExecutor_execute(command, env) ==
    IF env.outcome = "raises" THEN
        [result |-> [success |-> FALSE, error |-> "exception", return_code |-> -1,
                     stdout |-> << >>, stderr |-> << >>],
         events |-> << >>]
    ELSE IF env.outcome = "timeout" THEN
        [result |-> [success |-> FALSE, error |-> "timeout", return_code |-> -1,
                     stdout |-> << >>, stderr |-> << >>],
         events |-> <<"exec", "close">>]
    ELSE
        [result |-> [success |-> env.code = 0, return_code |-> env.code,
                     stdout |-> env.stdout, stderr |-> << >>, command |-> command],
         events |-> <<"exec", "exit">>]

execute(self, command, env) ==
    IF self.kind = "local" THEN LocalExecutor_execute(command, env)
    ELSE SSHExecutor_execute(command, env)

\* dict[key] = value
Put(d, key, value) ==
    [k \in DOMAIN d \cup {key} |-> IF k = key THEN value ELSE d[k]]

\* del dict[key]
Del(d, key) == [k \in DOMAIN d \ {key} |-> d[k]]

\* The nohup wrapper around a background command.
Nohup(command) == <<"nohup">> \o command \o <<"&", "echo", "$!">>

\* An execute_background that reports the launch and does not record it.
LocalExecutor_execute_background_Forgetting(self, command, env) ==
    LET r == LocalExecutor_execute(Nohup(command), env).result IN
    IF r.success /\ IsDigit(r.stdout) THEN
        [self |-> self,
         result |-> [success |-> TRUE, pid |-> ParseInt(r.stdout), command |-> command,
                     process_id |-> Str(ParseInt(r.stdout))]]
    ELSE [self |-> self,
          result |-> [success |-> FALSE, error |-> "no_process_id", command |-> command]]

\* LocalExecutor.execute_background: the pid printed by the wrapper is the handle.
LocalExecutor_execute_background(self, command, env) ==
    LET r == LocalExecutor_execute(Nohup(command), env).result IN
    IF r.success /\ IsDigit(r.stdout) THEN
        LET pid == ParseInt(r.stdout) IN
        [self |-> [self EXCEPT !.active_processes = Put(@, pid, command)],
         result |-> [success |-> TRUE, pid |-> pid, command |-> command,
                     process_id |-> Str(pid)]]
    ELSE [self |-> self,
          result |-> [success |-> FALSE, error |-> "no_process_id", command |-> command]]

\* SSHExecutor.execute_background: exec_command is called directly; the
\* handle is the counter value ("ssh_<n>"), the table keeps the pid.
SSHExecutor_execute_background(self, command, env) ==
    IF env.outcome = "raises" THEN
        [self |-> self,
         result |-> [success |-> FALSE, error |-> "exception", command |-> command]]
    ELSE IF IsDigit(env.stdout) THEN
        LET process_id == self.process_counter + 1 IN
        [self |-> [self EXCEPT !.process_counter = process_id,
                               !.active_processes = Put(@, process_id, ParseInt(env.stdout))],
         result |-> [success |-> TRUE, process_id |-> process_id,
                     pid |-> ParseInt(env.stdout), command |-> command]]
    ELSE [self |-> self,
          result |-> [success |-> FALSE, error |-> "no_process_id", command |-> command]]

execute_background(self, command, env) ==
    IF self.kind = "local" THEN LocalExecutor_execute_background(self, command, env)
    ELSE SSHExecutor_execute_background(self, command, env)

\* kill -9 <pid>
KillCommand(pid) == <<"kill", "-9", pid>>

\* A stop_process that sends the kill without looking the handle up.
LocalExecutor_stop_process_Blind(self, pid, env) ==
    [self |-> [self EXCEPT !.active_processes = Del(@, pid)],
     value |-> TRUE,
     events |-> <<"kill">>]

\* A stop_process that empties the whole table.
LocalExecutor_stop_process_Clearing(self, pid, env) ==
    IF pid \in DOMAIN self.active_processes THEN
        [self |-> [self EXCEPT !.active_processes = EmptyDict],
         value |-> TRUE,
         events |-> <<"kill">>]
    ELSE [self |-> self, value |-> FALSE, events |-> << >>]

\* LocalExecutor.stop_process: the kill's result is not looked at.
LocalExecutor_stop_process(self, pid, env) ==
    IF pid \in DOMAIN self.active_processes THEN
        [self |-> [self EXCEPT !.active_processes = Del(@, pid)],
         value |-> TRUE,
         events |-> <<"kill">>]
    ELSE [self |-> self, value |-> FALSE, events |-> << >>]

\* SSHExecutor.stop_process: the handle is dropped only when the kill succeeded.
SSHExecutor_stop_process(self, process_id, env) ==
    IF process_id \in DOMAIN self.active_processes THEN
        LET r == SSHExecutor_execute(KillCommand(self.active_processes[process_id]), env).result
        IN  IF r.success
            THEN [self |-> [self EXCEPT !.active_processes = Del(@, process_id)],
                  value |-> TRUE, events |-> <<"kill">>]
            ELSE [self |-> self, value |-> FALSE, events |-> <<"kill">>]
    ELSE [self |-> self, value |-> FALSE, events |-> << >>]

stop_process(self, handle, env) ==
    IF self.kind = "local" THEN LocalExecutor_stop_process(self, handle, env)
    ELSE SSHExecutor_stop_process(self, handle, env)

\* Handles a caller may pass to stop_process: the ones in use and one more.
Handles == {ParseInt(text) : text \in {x \in Stdouts : IsDigit(x)}} \cup 1..(MaxLaunches + 1)

ExecutorNames == {"local", "ssh"}

\* Number of background launches an executor has made so far.
Launched(self) ==
    IF self.kind = "ssh" THEN self.process_counter ELSE Cardinality(DOMAIN self.active_processes)

Execute(e) ==
    /\ e \in DOMAIN executors
    /\ \E command \in Commands, env \in ExecEnvs :
        LET x == execute(executors[e], command, env) IN
        ret' = [op |-> "execute", executor |-> e, command |-> command, env |-> env,
                result |-> x.result, events |-> x.events]
    /\ UNCHANGED <<adapters, test, executors, platform_adapters, fanout, data_storage>>

ExecuteBackground(e) ==
    /\ e \in DOMAIN executors
    /\ Launched(executors[e]) < MaxLaunches
    /\ \E command \in Commands, env \in ExecEnvs :
        LET x == execute_background(executors[e], command, env) IN
        /\ executors' = [executors EXCEPT ![e] = x.self]
        /\ ret' = [op |-> "execute_background", executor |-> e, command |-> command,
                   env |-> env, before |-> executors[e], result |-> x.result]
    /\ UNCHANGED <<adapters, test, platform_adapters, fanout, data_storage>>

StopProcess(e) ==
    /\ e \in DOMAIN executors
    /\ \E handle \in Handles, env \in ExecEnvs :
        LET x == stop_process(executors[e], handle, env) IN
        /\ executors' = [executors EXCEPT ![e] = x.self]
        /\ ret' = [op |-> "stop_process", executor |-> e, handle |-> handle,
                   env |-> env, before |-> executors[e], value |-> x.value,
                   events |-> x.events]
    /\ UNCHANGED <<adapters, test, platform_adapters, fanout, data_storage>>

NewExecutor(e) == IF e = "local" THEN LocalExecutor ELSE SSHExecutor

\* One executor of either class has been constructed; nothing runs in the
\* background.
InitExec ==
    /\ adapters = [q \in Platforms |-> NoAdapter]
    /\ test = [q \in Platforms |-> Idle]
    /\ ret = [op |-> "none"]
    /\ \E e \in ExecutorNames : executors = [x \in {e} |-> NewExecutor(e)]
    /\ platform_adapters = << >>
    /\ fanout = NoFanout
    /\ data_storage = EmptyDict

NextExec ==
    \E e \in ExecutorNames :
        \/ Execute(e)
        \/ ExecuteBackground(e)
        \/ StopProcess(e)

SpecExec == InitExec /\ [][NextExec]_vars

\* C3: every command result an adapter's execute_command or an executor's
\* execute returns carries an exit code, and its success flag is true
\* exactly when that exit code is 0.
C3_SuccessIffExitCodeZero ==
    ret.op \in {"execute_command", "execute"} =>
        /\ "return_code" \in DOMAIN ret.result
        /\ ret.result.success <=> ret.result.return_code = 0


----------------------------------------------------------------------------
(* The platform registries: main.py's platform_adapters, filled at startup,
   and the module globals of the routes, filled by POST /connect *)

\* config/platforms.yaml as load_platform_config returns it: the platform
\* sections under 'platforms' and, in some files, a 'gazebo' section at the
\* top level as well.
PlatformFiles ==
    LET sections == { [real_robot |-> r, gazebo |-> g] :
                        r \in Configs("real_robot"), g \in Configs("gazebo") }
    IN  { [platforms |-> x] : x \in sections }
        \cup { [platforms |-> x, gazebo |-> g] :
                 x \in sections, g \in {c \in Configs("gazebo") : c.enabled} }

\* The section each connect route reads: real_robot.py looks under
\* 'platforms', gazebo.py at the top level of the file.
RouteConfig(file, p) ==
    IF p = "real_robot"
    THEN Get(Get(file, "platforms", EmptyDict), "real_robot", EmptyDict)
    ELSE Get(file, "gazebo", EmptyDict)

RouteConfigs(p) == { RouteConfig(file, p) : file \in PlatformFiles }

\* The reading of the clock: the earliest one the adapter admits.
Clock(self) == CHOOSE t \in Now(self) : \A u \in Now(self) : t <= u

\* startup_event: each enabled platform's adapter is constructed and
\* connected; it enters platform_adapters only when connect returned True.
StartupRegistry(file, ssh, which) ==
    LET new_real == RealRobotAdapter(file.platforms.real_robot)
        real == connect(new_real, ssh, Clock(new_real))
        new_gazebo == GazeboAdapter(file.platforms.gazebo)
        gazebo == connect(new_gazebo, which, Clock(new_gazebo))
        first == IF file.platforms.real_robot.enabled /\ real.value
                 THEN Put(EmptyDict, "real_robot", real.self) ELSE EmptyDict
    IN  IF file.platforms.gazebo.enabled /\ gazebo.value
        THEN Put(first, "gazebo", gazebo.self) ELSE first

\* list(platform_adapters.keys()): the keys in the order startup_event
\* inserted them.
RegistryKeys(registry) ==
    SelectSeq(<<"real_robot", "gazebo">>, LAMBDA p : p \in DOMAIN registry)

\* POST /connect of either route: the status code of the response and the
\* module global it leaves behind.
RouteConnectOutcome(p, adapter, config, env) ==
    IF adapter # NoAdapter /\ adapter.is_connected
    THEN [status |-> 200, adapter |-> adapter]
    ELSE IF ~Get(config, "enabled", FALSE)
    THEN [status |-> IF p = "real_robot" THEN 400 ELSE 500, adapter |-> adapter]
    ELSE LET fresh == NewAdapter(p, config)
             c == connect(fresh, env, Clock(fresh))
         IN  [status |-> IF c.value THEN 200 ELSE 500, adapter |-> c.self]

\* POST /disconnect of either route: the global is disconnected and dropped.
RouteDisconnectOutcome(adapter) == [status |-> 200, adapter |-> NoAdapter]


----------------------------------------------------------------------------
(* The fan-out: main.py execute_test_concurrently and test.py
   run_test_on_platforms *)

MaxPlatforms == 2

\* The platform identifiers a request can name: the two known ones and one
\* nobody registered.
PlatformNames == Platforms \cup {"arm"}

PlatformLists == SeqsUpTo(PlatformNames, MaxPlatforms)

\* The step lists of the test documents handed to the fan-out.
FanoutSteps ==
    { << >>,
      << StepWithCommand(CmdEcho) >>,
      << StepWithCommands(<<CmdEcho>>) >>,
      << StepWithCommand(CmdEcho), StepWithCommand(CmdEcho) >> }

\* main.py takes the config of the websocket message: 'platforms' may be
\* missing.  test.py builds full_test_config, always with 'platforms', and
\* the route has refused an empty list.
FanoutConfigs(handler) ==
    LET with_platforms ==
            { [test_id |-> "t1", steps |-> q, platforms |-> l] :
                  q \in FanoutSteps,
                  l \in IF handler = "main" THEN PlatformLists
                        ELSE PlatformLists \ { << >> } }
    IN  IF handler = "main"
        THEN with_platforms \cup { [test_id |-> "t1", steps |-> q] : q \in FanoutSteps }
        ELSE with_platforms

\* The backend's answers during a fan-out: every command that reaches it
\* runs to the end and exits with 0 or 1.
FanoutEnvs(self, run) ==
    IF ~HasCommand(Head(run.left)) \/ ReturnsEarly(self) THEN {QuietEnv}
    ELSE { [probe |-> "alive", reconnect |-> "ok",
            run |-> RunEnv("ok", "ready", "ok", "returns", c)] : c \in {0, 1} }

\* main.py 213: config.get("platforms", list(platform_adapters.keys()))
TargetPlatforms(config, registry) == Get(config, "platforms", RegistryKeys(registry))

\* main.py 215-220: one task per target platform found in the registry.
MainTasks(config, registry) ==
    SelectSeq(TargetPlatforms(config, registry), LAMBDA p : p \in DOMAIN registry)

\* test.py 93: the loop visits every requested platform.
RouteTasks(config) == config.platforms

\* main.py 229-232 and test.py 125-128: the entry of a task that raised.
ErrorEntry(handler) ==
    IF handler = "main" THEN [error |-> "exception", status |-> "failed"]
    ELSE [error |-> "exception", success |-> FALSE]

\* test.py 101-104, 112-115, 118-121: the entry of a platform not run.
RefusedEntry(platform) ==
    IF platform \in Platforms
    THEN [error |-> "not connected", success |-> FALSE]
    ELSE [error |-> "unknown platform", success |-> FALSE]

\* test.py 95-97, 106-108: whether the route's global can run the test.
Runnable(platform, globals) ==
    /\ platform \in Platforms
    /\ globals[platform] # NoAdapter
    /\ globals[platform].is_connected

\* results[platform_name] = ... with a second entry that overwrites every
\* key already there.
RecordResult_Clobbering(results, platform, entry) ==
    [k \in DOMAIN results \cup {platform} |-> entry]

\* results[platform_name] = ...
RecordResult(results, platform, entry) == Put(results, platform, entry)

\* processor.py compare_results: both verdicts and both step counts are read
\* under the key 'result'.
compare_results(results_a, results_b) ==
    LET success_a == Get(Get(results_a, "result", EmptyDict), "success", FALSE)
        success_b == Get(Get(results_b, "result", EmptyDict), "success", FALSE)
        steps_a == Get(Get(results_a, "result", EmptyDict), "steps", 0)
        steps_b == Get(Get(results_b, "result", EmptyDict), "steps", 0)
    IN  [platform_a |-> Get(results_a, "platform", "Unknown"),
         platform_b |-> Get(results_b, "platform", "Unknown"),
         success_comparison |->
             [platform_a |-> success_a, platform_b |-> success_b,
              equal |-> success_a = success_b],
         steps_comparison |->
             [platform_a |-> steps_a, platform_b |-> steps_b,
              difference |-> steps_a - steps_b]]

\* test.py 131-138: the comparison is made when both platforms have an entry
\* and neither entry carries an error.
Analysis(results) ==
    IF /\ "real_robot" \in DOMAIN results
       /\ "gazebo" \in DOMAIN results
       /\ "error" \notin DOMAIN results["real_robot"]
       /\ "error" \notin DOMAIN results["gazebo"]
    THEN [comparison |-> compare_results(results["real_robot"], results["gazebo"])]
    ELSE EmptyDict

\* The fan-out between two runs, and while it works through its tasks:
\* tasks are the platforms still to be awaited, run the coroutine being
\* awaited, begun the positions of the tasks whose execute_test has started,
\* log what each task did, in order.
FanoutIdle(handler, started) ==
    [active |-> FALSE, handler |-> handler, started |-> started]

FanoutRunning(handler, config, tasks) ==
    [active |-> TRUE, handler |-> handler, started |-> TRUE, config |-> config,
     all_tasks |-> tasks, tasks |-> tasks, run |-> Idle, begun |-> {},
     results |-> EmptyDict, log |-> << >>]

\* The adapter object a task of the fan-out works on.
FanoutAdapter(platform) ==
    IF fanout.handler = "main" THEN platform_adapters[platform] ELSE adapters[platform]


----------------------------------------------------------------------------
(* The registries and the fan-out as actions *)

\* What the database does when a row is written.
DbEnvs == {"ok", "error"}

\* The columns save_test_result fills from the result dict.
Row(test_result) ==
    [test_id |-> Get(test_result, "test_id", "None"),
     platform |-> Get(test_result, "platform", "None"),
     success |-> Get(test_result, "success", FALSE)]

\* The rows of the table whose test_id is the given one.  A NULL test_id
\* (the  "None"  of a result dict without the key) equals nothing in SQL.
RowsOf(store, test_id) ==
    { r \in DOMAIN store : test_id # "None" /\ r.test_id = test_id }

\* INSERT: one more copy of the row.
Insert(store, row) == Put(store, row, Get(store, row, 0) + 1)

\* A plain INSERT: the row is added whatever the table holds.
save_test_result_Inserting(store, test_result, db) ==
    IF db = "error" THEN [store |-> store, value |-> FALSE]
    ELSE [store |-> Insert(store, Row(test_result)), value |-> TRUE]

\* DataStorage.save_test_result: INSERT OR REPLACE on the unique column
\* test_id, which removes the rows in conflict and adds the new one; any
\* exception is printed and False returned.
save_test_result(store, test_result, db) ==
    IF db = "error" THEN [store |-> store, value |-> FALSE]
    ELSE LET row == Row(test_result)
             kept == [r \in DOMAIN store \ RowsOf(store, row.test_id) |-> store[r]]
         IN  [store |-> Insert(kept, row), value |-> TRUE]

\* DataStorage.get_test_result: a row SELECT finds, or None; any exception
\* is printed and None returned.
get_test_result(store, test_id, db) ==
    IF db = "error" \/ RowsOf(store, test_id) = {} THEN [found |-> FALSE]
    ELSE [found |-> TRUE, row |-> CHOOSE r \in RowsOf(store, test_id) : TRUE]

\* test.py 141-148: the record run_test_on_platforms hands to the storage.
OverallResult(config, results, analysis) ==
    [test_id |-> config.test_id, platforms |-> config.platforms,
     results |-> results, analysis |-> analysis]

Handlers == {"main", "test"}

\* main.py startup_event, once, before any message is served.
Startup ==
    /\ fanout.handler = "main" /\ ~fanout.active /\ ~fanout.started
    /\ \E file \in PlatformFiles, ssh \in SshConnectEnvs, which \in WhichEnvs :
        platform_adapters' = StartupRegistry(file, ssh, which)
    /\ fanout' = FanoutIdle("main", TRUE)
    /\ ret' = [op |-> "startup"]
    /\ UNCHANGED <<adapters, test, executors, data_storage>>

\* config/tests.yaml as get_test_case finds it: unreadable, without a
\* 'test_cases' section, or with one test case.
TestFiles ==
    { [readable |-> FALSE],
      [readable |-> TRUE, content |-> EmptyDict],
      [readable |-> TRUE,
       content |-> [test_cases |-> [boot_test |-> [steps |-> << StepWithCommand(CmdEcho) >>]]]] }

\* The test names a request can carry.
TestNames == {"boot_test", "no_such_test"}

\* What the try block of get_test_case does: it returns, or raises the
\* exception of open(), or raises HTTPException(404).
TryGetTestCase(file, test_name) ==
    IF ~file.readable THEN [raised |-> "OSError", status |-> 0]
    ELSE LET test_cases == Get(file.content, "test_cases", EmptyDict) IN
         IF test_name \notin DOMAIN test_cases
         THEN [raised |-> "HTTPException", status |-> 404]
         ELSE [raised |-> "none", status |-> 200]

\* GET /test-cases/{test_name}: the handler  except Exception  of lines
\* 52-54 catches whatever the try block raised, HTTPException included,
\* and raises HTTPException(500).
get_test_case(file, test_name) ==
    LET tried == TryGetTestCase(file, test_name) IN
    [tried |-> tried,
     status |-> IF tried.raised = "none" THEN tried.status ELSE 500]

\* GET /test-cases/{test_name} of test.py.
RouteGetTestCase ==
    /\ fanout.handler = "test" /\ ~fanout.active
    /\ \E file \in TestFiles, test_name \in TestNames :
        LET r == get_test_case(file, test_name) IN
        ret' = [op |-> "get_test_case", file |-> file, test_name |-> test_name,
                tried |-> r.tried, status |-> r.status]
    /\ UNCHANGED <<adapters, test, executors, platform_adapters, fanout, data_storage>>

\* POST /connect of real_robot.py and gazebo.py.
RouteConnect(p) ==
    /\ fanout.handler = "test" /\ ~fanout.active
    /\ \E config \in RouteConfigs(p), env \in ConnectEnvs([kind |-> p]) :
        LET c == RouteConnectOutcome(p, adapters[p], config, env) IN
        /\ adapters' = [adapters EXCEPT ![p] = c.adapter]
        /\ ret' = [op |-> "route_connect", platform |-> p, before |-> adapters[p],
                   config |-> config, status |-> c.status]
    /\ UNCHANGED <<test, executors, platform_adapters, fanout, data_storage>>

\* POST /disconnect of real_robot.py and gazebo.py.
RouteDisconnect(p) ==
    /\ fanout.handler = "test" /\ ~fanout.active
    /\ LET d == RouteDisconnectOutcome(adapters[p]) IN
        /\ adapters' = [adapters EXCEPT ![p] = d.adapter]
        /\ ret' = [op |-> "route_disconnect", platform |-> p,
                   before |-> adapters[p], status |-> d.status]
    /\ UNCHANGED <<test, executors, platform_adapters, fanout, data_storage>>

\* execute_test_concurrently is called: main.py 213-223.
FanoutCallMain ==
    /\ fanout.handler = "main" /\ ~fanout.active /\ fanout.started
    /\ \E config \in FanoutConfigs("main") :
        fanout' = FanoutRunning("main", config, MainTasks(config, platform_adapters))
    /\ ret' = [op |-> "fanout_call"]
    /\ UNCHANGED <<adapters, test, executors, platform_adapters, data_storage>>

\* The background task run_test_on_platforms starts: test.py 89-93.
FanoutCallRoute ==
    /\ fanout.handler = "test" /\ ~fanout.active
    /\ \E config \in FanoutConfigs("test") :
        fanout' = FanoutRunning("test", config, RouteTasks(config))
    /\ ret' = [op |-> "fanout_call"]
    /\ UNCHANGED <<adapters, test, executors, platform_adapters, data_storage>>

\* The next task is awaited: its execute_test starts.
FanoutStart ==
    /\ fanout.active /\ ~fanout.run.active /\ fanout.tasks # << >>
    /\ fanout.handler = "test" => Runnable(Head(fanout.tasks), adapters)
    /\ fanout' = [fanout EXCEPT
           !.run = Running(fanout.config, StepsOf(fanout.config), << >>),
           !.begun = @ \cup {Len(fanout.log) + 1}]
    /\ UNCHANGED <<adapters, test, ret, executors, platform_adapters, data_storage>>

\* test.py: the next platform is unknown, or its global is missing or not
\* connected; it gets an error entry and the loop goes on.
FanoutRefuse ==
    /\ fanout.active /\ ~fanout.run.active /\ fanout.tasks # << >>
    /\ fanout.handler = "test" /\ ~Runnable(Head(fanout.tasks), adapters)
    /\ LET platform == Head(fanout.tasks)
           entry == RefusedEntry(platform)
       IN  fanout' = [fanout EXCEPT
               !.tasks = Tail(fanout.tasks),
               !.results = RecordResult(fanout.results, platform, entry),
               !.log = Append(fanout.log,
                   [platform |-> platform, outcome |-> "refused", entry |-> entry])]
    /\ UNCHANGED <<adapters, test, ret, executors, platform_adapters, data_storage>>

\* One iteration of the running execute_test's loop.
FanoutStep ==
    /\ fanout.active /\ fanout.run.active /\ fanout.run.left # << >>
    /\ LET platform == Head(fanout.tasks)
           self == FanoutAdapter(platform)
       IN  \E env \in FanoutEnvs(self, fanout.run) :
             LET x == LoopIteration(self, fanout.run, env, Clock(self)) IN
             /\ fanout' = [fanout EXCEPT !.run = x.run]
             /\ IF fanout.handler = "main"
                THEN /\ platform_adapters' = [platform_adapters EXCEPT ![platform] = x.self]
                     /\ UNCHANGED adapters
                ELSE /\ adapters' = [adapters EXCEPT ![platform] = x.self]
                     /\ UNCHANGED platform_adapters
    /\ UNCHANGED <<test, ret, executors, data_storage>>

\* The running execute_test returns its summary: main.py 226-227,
\* test.py 98-99 and 109-110.
FanoutTaskReturns ==
    /\ fanout.active /\ fanout.run.active /\ fanout.run.left = << >>
    /\ LET platform == Head(fanout.tasks)
           entry == TestSummary(FanoutAdapter(platform), fanout.run.config,
                                fanout.run.results)
       IN  fanout' = [fanout EXCEPT
               !.tasks = Tail(fanout.tasks),
               !.run = Idle,
               !.results = RecordResult(fanout.results, platform, entry),
               !.log = Append(fanout.log,
                   [platform |-> platform, outcome |-> "returned", entry |-> entry])]
    /\ UNCHANGED <<adapters, test, ret, executors, platform_adapters, data_storage>>

\* The running execute_test raises: main.py 228-232, test.py 123-128.
FanoutTaskRaises ==
    /\ fanout.active /\ fanout.run.active /\ fanout.run.left # << >>
    /\ LET platform == Head(fanout.tasks)
           entry == ErrorEntry(fanout.handler)
       IN  fanout' = [fanout EXCEPT
               !.tasks = Tail(fanout.tasks),
               !.run = Idle,
               !.results = RecordResult(fanout.results, platform, entry),
               !.log = Append(fanout.log,
                   [platform |-> platform, outcome |-> "raised", entry |-> entry])]
    /\ UNCHANGED <<adapters, test, ret, executors, platform_adapters, data_storage>>

\* Every task has been awaited: main.py 234-242 returns the result map,
\* test.py 130-151 adds the analysis and hands the record to the storage.
FanoutReturn ==
    /\ fanout.active /\ ~fanout.run.active /\ fanout.tasks = << >>
    /\ ret' = [op |-> "fanout", handler |-> fanout.handler,
               config |-> fanout.config,
               registry |-> IF fanout.handler = "main" THEN platform_adapters
                            ELSE adapters,
               tasks |-> fanout.all_tasks,
               results |-> fanout.results,
               analysis |-> IF fanout.handler = "test" THEN Analysis(fanout.results)
                            ELSE EmptyDict,
               log |-> fanout.log]
    /\ fanout' = FanoutIdle(fanout.handler, TRUE)
    /\ IF fanout.handler = "test"
       THEN \E db \in DbEnvs :
              data_storage' = save_test_result(data_storage,
                  OverallResult(fanout.config, fanout.results, Analysis(fanout.results)),
                  db).store
       ELSE UNCHANGED data_storage
    /\ UNCHANGED <<adapters, test, executors, platform_adapters>>

----------------------------------------------------------------------------
(* The specification of the fan-out *)

\* The process has been started with no adapter anywhere; the fan-out under
\* observation is main.py's or test.py's.
InitFanout ==
    /\ adapters = [q \in Platforms |-> NoAdapter]
    /\ test = [q \in Platforms |-> Idle]
    /\ ret = [op |-> "none"]
    /\ executors = << >>
    /\ platform_adapters = << >>
    /\ \E handler \in Handlers : fanout = FanoutIdle(handler, FALSE)
    /\ data_storage = EmptyDict

NextFanout ==
    \/ Startup
    \/ \E p \in Platforms : RouteConnect(p)
    \/ \E p \in Platforms : RouteDisconnect(p)
    \/ RouteGetTestCase
    \/ FanoutCallMain
    \/ FanoutCallRoute
    \/ FanoutStart
    \/ FanoutRefuse
    \/ FanoutStep
    \/ FanoutTaskReturns
    \/ FanoutTaskRaises
    \/ FanoutReturn

SpecFanout == InitFanout /\ [][NextFanout]_vars


----------------------------------------------------------------------------
(* Claims about the fan-out, checked under SpecFanout *)

\* The fan-out that has just returned.
ReturnedFanout == ret.op = "fanout"

\* The platform identifiers the returned fan-out was asked for.
Requested ==
    LET target == IF ret.handler = "main"
                  THEN TargetPlatforms(ret.config, ret.registry)
                  ELSE ret.config.platforms
    IN  { target[i] : i \in DOMAIN target }

\* Whether log entry i is the last one of its platform.
LastOfPlatform(log, i) ==
    \A j \in DOMAIN log : j > i => log[j].platform # log[i].platform

\* Whether entry is the complete summary of the fan-out's test on the
\* adapter registered under platform: its own name, the test's id, one step
\* entry per step of the test.
OwnSummary(entry, platform) ==
    /\ DOMAIN entry = {"test_id", "platform", "success", "results", "summary"}
    /\ entry.platform = ret.registry[platform].name
    /\ entry.test_id = ret.config.test_id
    /\ Len(entry.results) = Len(StepsOf(ret.config))
    /\ entry.summary.total_steps = Len(entry.results)

\* C9: fan-out isolation.  When a fan-out returns, every task it built has
\* been awaited, in order, whatever the tasks before it did; the entry under
\* each platform's key is what that platform's own last task produced: its
\* own complete summary when its execute_test returned, the error entry
\* when its execute_test raised.  A fault on one platform changes no other
\* platform's entry.
C9_FanoutIsolation ==
    ReturnedFanout =>
        /\ Len(ret.log) = Len(ret.tasks)
        /\ \A i \in DOMAIN ret.log :
            LET task == ret.log[i] IN
            /\ task.platform = ret.tasks[i]
            /\ task.platform \in DOMAIN ret.results
            /\ LastOfPlatform(ret.log, i) =>
                /\ ret.results[task.platform] = task.entry
                /\ task.outcome = "returned" =>
                       OwnSummary(ret.results[task.platform], task.platform)
                /\ task.outcome = "raised" =>
                       ret.results[task.platform] = ErrorEntry(ret.handler)

\* A fan-out of either handler over two platforms has returned: the first
\* platform's test ran a command and returned, then the second platform's
\* test raised; the map holds the summary and the error entry side by side.
C9_Witness ==
    /\ ReturnedFanout
    /\ Len(ret.log) = 2
    /\ ret.log[1].platform # ret.log[2].platform
    /\ ret.log[1].outcome = "returned"
    /\ Len(ret.log[1].entry.results) > 0
    /\ ret.log[2].outcome = "raised"
    /\ OwnSummary(ret.results[ret.log[1].platform], ret.log[1].platform)
    /\ ret.results[ret.log[2].platform] = ErrorEntry(ret.handler)

\* Whether entry is a platform-scoped error entry.
IsErrorEntry(entry) == "error" \in DOMAIN entry

\* C10: every platform identifier requested in a fan-out has an entry in
\* the merged result map, a test summary if its test ran and an error entry
\* otherwise; none is left out.
C10_EveryRequestedPlatformHasAnEntry ==
    ReturnedFanout =>
        \A platform \in Requested :
            /\ platform \in DOMAIN ret.results
            /\ \/ IsErrorEntry(ret.results[platform])
               \/ OwnSummary(ret.results[platform], platform)

\* The same statement for test.py's run_test_on_platforms alone.
C10_RouteFanoutIsComplete ==
    ReturnedFanout /\ ret.handler = "test" => C10_EveryRequestedPlatformHasAnEntry


\* The positions of the tasks whose execute_test has started and has not
\* finished yet.
InProgress ==
    IF fanout.active THEN fanout.begun \ (1 .. Len(fanout.log)) ELSE {}

\* Whether the task at position i of the fan-out in flight gets to run its
\* execute_test: always in main.py, where only registered platforms become
\* tasks; in test.py when the route's global is connected.
RunsTest(i) ==
    fanout.handler = "test" => Runnable(fanout.all_tasks[i], adapters)

\* C11: the fan-out runs the platforms concurrently.  When the first of two
\* or more platforms has just finished its execute_test and the second
\* platform has a test to run, the second platform's execute_test has
\* already started: it did not wait for the first to complete.
C11_SecondDoesNotWaitForFirst ==
    ( /\ fanout.active
      /\ Len(fanout.all_tasks) >= 2
      /\ Len(fanout.log) = 1
      /\ fanout.log[1].outcome # "refused"
      /\ RunsTest(2) )
    => 2 \in fanout.begun

\* What the code does instead: at most one execute_test of a fan-out is in
\* progress at any time, so no state has two platforms running at once.
C11_OneAtATime == Cardinality(InProgress) <= 1


----------------------------------------------------------------------------
(* Claims about the adapters' life cycle, checked under Spec *)

\* Whether the adapter holds no backend session and no simulator process.
HoldsNothing(self) ==
    IF self.kind = "real_robot" THEN ~self.ssh_client
    ELSE self.gazebo_process = "none"

\* C12: idempotent disconnect.  Every disconnect call, on an adapter in any
\* state, returns True and leaves the adapter not connected with no session
\* and no process held; when the call before it was a disconnect as well,
\* that one had returned True too.
C12_IdempotentDisconnect ==
    ret.op = "disconnect" =>
        /\ ret.value = TRUE
        /\ ~adapters[ret.platform].is_connected
        /\ HoldsNothing(adapters[ret.platform])
        /\ ret.previous # "disconnect_false"

\* disconnect has been called twice in a row: the second call met an adapter
\* already disconnected by the first.
C12_Witness ==
    /\ ret.op = "disconnect"
    /\ ret.previous = "disconnect_true"
    /\ ~ret.before.is_connected
    /\ HoldsNothing(ret.before)
    /\ ret.value = TRUE


\* The commands of a list of steps in specification order: step order, then
\* command order within the step.
RECURSIVE CommandsInOrder(_)
CommandsInOrder(steps) ==
    IF steps = << >> THEN << >>
    ELSE Get(Head(steps), "commands", << >>) \o CommandsInOrder(Tail(steps))

\* C13: for a specification whose steps each carry a list of commands,
\* execute_test hands exactly the commands of the steps to execute_command,
\* once each, in specification order.
C13_CommandsRunInOrder ==
    ( /\ ReturnedSummary
      /\ \A i \in DOMAIN StepsOf(ret.config) :
             "commands" \in DOMAIN StepsOf(ret.config)[i] )
    => ret.calls = CommandsInOrder(StepsOf(ret.config))


----------------------------------------------------------------------------
(* The base class: PlatformAdapter.execute_test and _run_test_steps *)

MaxCommands == 2

\* A list of n commands, all told apart from their neighbours.
CommandList(n) == [k \in 1 .. n |-> IF k % 2 = 1 THEN CmdEcho ELSE CmdInit]

\* Step dicts as _run_test_steps reads them: a name and a list under
\* 'commands', or a name alone.
BaseStep(n) == [name |-> "boot", commands |-> CommandList(n)]
BareStep == [name |-> "bare"]
BaseSteps == { BaseStep(n) : n \in 0 .. MaxCommands } \cup {BareStep}

\* The test_config dicts: with 'steps', with 'commands', with both, with
\* neither.
BaseConfigs ==
    { [test_id |-> "t1", steps |-> q] : q \in SeqsUpTo(BaseSteps, MaxSteps) }
    \cup { [test_id |-> "t1", commands |-> CommandList(n)] : n \in 0 .. MaxCommands }
    \cup { [test_id |-> "t1", commands |-> CommandList(1), steps |-> << BaseStep(1) >>],
           [test_id |-> "t1"] }

\* __init__ of a concrete subclass of PlatformAdapter.
PlatformAdapter ==
    [kind |-> "base", name |-> "Unknown Platform", is_connected |-> FALSE,
     last_update |-> NoTime, test_results |-> EmptyDict]

\* What the subclass's execute_command does with one command: a result with
\* success True, a result with success False, or an exception.
BaseOutcomes == {"ok", "fail", "raises"}

BaseResult(outcome) ==
    IF outcome = "ok" THEN CommandResult(TRUE, 0, "out", "")
    ELSE CommandResult(FALSE, 1, "", "err")

\* for command in commands: results.append(await self.execute_command(command))
\* with env the outcomes of the calls to come; raised tells whether a call
\* raised and ended the loop.
RECURSIVE RunCommands(_, _)
RunCommands(commands, env) ==
    IF commands = << >>
    THEN [results |-> << >>, calls |-> << >>, env |-> env, raised |-> FALSE]
    ELSE IF Head(env) = "raises"
    THEN [results |-> << >>, calls |-> << Head(commands) >>, env |-> Tail(env),
          raised |-> TRUE]
    ELSE LET rest == RunCommands(Tail(commands), Tail(env)) IN
         [rest EXCEPT !.results = << BaseResult(Head(env)) >> \o @,
                      !.calls = << Head(commands) >> \o @]

\* for step in test_config['steps']: ...  results.append(step_result)
RECURSIVE RunSteps(_, _)
RunSteps(steps, env) ==
    IF steps = << >>
    THEN [results |-> << >>, calls |-> << >>, env |-> env, raised |-> FALSE]
    ELSE LET step == Head(steps)
             inner == RunCommands(Get(step, "commands", << >>), env)
             step_result == [step |-> Get(step, "name", "unknown"),
                             results |-> inner.results]
         IN  IF inner.raised THEN inner
             ELSE LET rest == RunSteps(Tail(steps), inner.env) IN
                  [rest EXCEPT !.results = << step_result >> \o @,
                               !.calls = inner.calls \o @]

\* all(r.get('success', False) for r in results)
AllSucceeded(results) ==
    \A i \in DOMAIN results : Get(results[i], "success", FALSE)

PlatformAdapter_run_test_steps(test_config, env) ==
    LET loop == IF "commands" \in DOMAIN test_config
                THEN RunCommands(test_config.commands, env)
                ELSE IF "steps" \in DOMAIN test_config
                THEN RunSteps(test_config.steps, env)
                ELSE RunCommands(<< >>, env)
    IN  [raised |-> loop.raised, calls |-> loop.calls,
         value |-> [success |-> AllSucceeded(loop.results),
                    steps |-> Len(loop.results),
                    results |-> loop.results]]

PlatformAdapter_execute_test(self, test_config, env) ==
    LET run == PlatformAdapter_run_test_steps(test_config, env)
        record == [test_id |-> test_config.test_id, platform |-> self.name,
                   result |-> run.value]
    IN  IF run.raised
        THEN [self |-> self, calls |-> run.calls,
              value |-> [test_id |-> test_config.test_id, platform |-> self.name,
                         error |-> "exception", success |-> FALSE]]
        ELSE [self |-> [self EXCEPT !.test_results =
                            Put(self.test_results, test_config.test_id, record)],
              calls |-> run.calls, value |-> record]

\* The commands a test_config can get executed, in order.
CommandsOfConfig(test_config) ==
    IF "commands" \in DOMAIN test_config THEN test_config.commands
    ELSE IF "steps" \in DOMAIN test_config THEN CommandsInOrder(test_config.steps)
    ELSE << >>

\* The outcomes the calls of one execute_test can meet, one per command.
BaseEnvs(test_config) ==
    [1 .. Len(CommandsOfConfig(test_config)) -> BaseOutcomes]

\* execute_test is called once on a fresh instance.
BaseExecuteTest ==
    /\ "base" \in DOMAIN adapters
    /\ ret.op = "none"
    /\ \E test_config \in BaseConfigs : \E env \in BaseEnvs(test_config) :
        LET x == PlatformAdapter_execute_test(adapters["base"], test_config, env) IN
        /\ adapters' = [adapters EXCEPT !["base"] = x.self]
        /\ ret' = [op |-> "base_execute_test", config |-> test_config, env |-> env,
                   calls |-> x.calls, value |-> x.value]
    /\ UNCHANGED <<test, executors, platform_adapters, fanout, data_storage>>

InitBase ==
    /\ adapters = [q \in {"base"} |-> PlatformAdapter]
    /\ test = << >>
    /\ ret = [op |-> "none"]
    /\ executors = << >>
    /\ platform_adapters = << >>
    /\ fanout = NoFanout
    /\ data_storage = EmptyDict

NextBase == BaseExecuteTest

SpecBase == InitBase /\ [][NextBase]_vars


----------------------------------------------------------------------------
(* Claims about the base class, checked under SpecBase *)

\* execute_test of the base class has returned the record of a run over
\* 'steps'.
ReturnedBaseSteps ==
    /\ ret.op = "base_execute_test"
    /\ "result" \in DOMAIN ret.value
    /\ "commands" \notin DOMAIN ret.config
    /\ "steps" \in DOMAIN ret.config

\* C14: fail-fast at command level.  Within each step's results no result
\* follows a failed one, and commands of the step are missing from its
\* results only after a failed one.
C14_FailFastAtCommandLevel ==
    ReturnedBaseSteps =>
        \A i \in DOMAIN ret.value.result.results :
            LET results == ret.value.result.results[i].results
                commands == Get(ret.config.steps[i], "commands", << >>)
            IN  /\ \A k \in DOMAIN results : ~results[k].success => k = Len(results)
                /\ Len(results) < Len(commands) =>
                       Len(results) > 0 /\ ~results[Len(results)].success


----------------------------------------------------------------------------
(* Claims about timeouts and exceptions of command execution *)

\* Whether the command that was started was cancelled afterwards: the
\* process killed or the channel closed.
Cancelled(events) ==
    \E i, j \in DOMAIN events :
        /\ i < j
        /\ events[i] \in {"exec", "spawn"}
        /\ events[j] \in {"kill", "close"}

\* The last call started a command and ran into a timeout while it waited
\* for it: an adapter's execute_command or an executor's execute.
TimedOutInFlight ==
    \/ /\ ReturnedCommand
       /\ ~ReturnsEarly(ret.before)
       /\ Count(ret.events, "exec") = 1
       /\ IF ret.platform = "real_robot"
          THEN ret.env.run.exec = "ok" /\ TimedOut(ret.command, ret.env.run)
          ELSE ret.env.run.exec = "timeout"
    \/ ret.op = "execute" /\ ret.env.outcome = "timeout"

\* C15: whenever a command execution times out, the process is killed or the
\* channel closed before the call returns.
C15_TimeoutCancelsTheCommand ==
    TimedOutInFlight => Cancelled(ret.events)

\* The same statement for the executors' execute and GazeboAdapter alone.
C15_ExecutorsAndGazeboCancel ==
    (TimedOutInFlight /\ (ReturnedCommand => ret.platform = "gazebo"))
        => Cancelled(ret.events)


\* The result record of the last execute_command or execute call.
LastResult == ret.result

\* C16: for a normal command, every timeout result of an executor or an
\* adapter carries a timeout error text, exit code -1 and success false.
C16_TimeoutResultShape ==
    ( /\ ret.op \in {"execute", "execute_command"}
      /\ ~IsInitCommand(ret.command)
      /\ \/ TimedOutInFlight
         \/ ret.op = "execute_command" /\ ~ReturnsEarly(ret.before)
              /\ Count(ret.events, "exec") = 1 /\ ret.env.run.exec = "timeout" )
    => /\ ~LastResult.success
       /\ "return_code" \in DOMAIN LastResult
       /\ LastResult.return_code = -1
       /\ LastResult.error = "timeout"

\* The same statement for SSHExecutor.execute and GazeboAdapter alone.
C16_SshAndGazeboTimeoutResultShape ==
    ( \/ ret.op = "execute" /\ ret.executor = "ssh"
      \/ ret.op = "execute_command" /\ ret.platform = "gazebo" )
    => C16_TimeoutResultShape


\* The backend raised an exception other than a timeout while the command of
\* the last execute_command call was being run.
RunRaised ==
    /\ ReturnedCommand
    /\ ~ReturnsEarly(ret.before)
    /\ Count(ret.events, "exec") = 1
    /\ \/ ret.env.run.exec = "raises"
       \/ /\ ret.platform = "real_robot"
          /\ ret.env.run.exec = "ok"
          /\ IF IsInitCommand(ret.command)
             THEN ret.env.run.status = "raises"
             ELSE ret.env.run.read = "raises"

\* C17: execute_command never raises; it always returns a result record,
\* and when the backend raised while the command was run (or the reconnect
\* after a failed probe did not succeed) that record has success false,
\* exit code -1 and an error text.
C17_ExceptionsBecomeFailureResults ==
    ReturnedCommand =>
        /\ DOMAIN ret.result = {"success", "return_code", "output", "error"}
        /\ (RunRaised \/ (ProbeFailed /\ Count(ret.events, "exec") = 0)) =>
               /\ ~ret.result.success
               /\ ret.result.return_code = -1
               /\ ret.result.error # ""

\* The same statement for normal commands alone.
C17_NormalCommandExceptionsBecomeFailures ==
    (ReturnedCommand /\ ~IsInitCommand(ret.command))
        => C17_ExceptionsBecomeFailureResults


----------------------------------------------------------------------------
(* Claims about the executors' background processes, checked under SpecExec *)

\* The last call was stop_process with a handle the table did not hold.
StoppedUnknownHandle ==
    /\ ret.op = "stop_process"
    /\ ret.handle \notin DOMAIN ret.before.active_processes

\* C18: stop_process with a handle that is not in the active-process table
\* returns False, sends no kill command and leaves the executor unchanged.
C18_StopUnknownHandleIsNoOp ==
    StoppedUnknownHandle =>
        /\ ret.value = FALSE
        /\ ret.events = << >>
        /\ executors[ret.executor] = ret.before

\* stop_process was called with an unknown handle while another background
\* process was in the table: it returned False and the table still holds
\* that process.
C18_Witness ==
    /\ StoppedUnknownHandle
    /\ DOMAIN ret.before.active_processes # {}
    /\ ret.value = FALSE
    /\ executors[ret.executor].active_processes = ret.before.active_processes


\* The handle a successful execute_background hands back, as stop_process
\* of the same executor takes it: the pid for LocalExecutor.stop_process(pid),
\* the process_id for SSHExecutor.stop_process(process_id).
ReturnedHandle ==
    IF ret.executor = "local" THEN ret.result.pid ELSE ret.result.process_id

\* The wrapper of the last execute_background call ran and printed no
\* process id.
NoProcessId ==
    /\ ret.op = "execute_background"
    /\ ret.env.outcome = "exits"
    /\ (ret.executor = "local" => ret.env.code = 0)
    /\ ~IsDigit(ret.env.stdout)

\* After execute_background: a success has put the returned handle into the
\* table, a failure has left the executor as it was, and a launch that
\* yielded no process id is answered with the handle-acquisition error.
LaunchIsRecorded ==
    ret.op = "execute_background" =>
        /\ ret.result.success =>
               ReturnedHandle \in DOMAIN executors[ret.executor].active_processes
        /\ ~ret.result.success => executors[ret.executor] = ret.before
        /\ NoProcessId => ~ret.result.success /\ ret.result.error = "no_process_id"

\* A stop_process with a handle of the table finds it: the kill is sent.
StopFindsHandle ==
    (ret.op = "stop_process" /\ ret.handle \in DOMAIN ret.before.active_processes)
        => ret.events = <<"kill">>

\* A handle leaves the table only through a stop_process with that handle.
HandleStaysUntilStopped ==
    \A e \in DOMAIN executors :
        \A h \in DOMAIN executors[e].active_processes :
            \/ h \in DOMAIN executors'[e].active_processes
            \/ ret'.op = "stop_process" /\ ret'.executor = e /\ ret'.handle = h

\* C19: background execution records its handle.  After a successful
\* execute_background the returned handle is in the active-process table,
\* it stays there until a stop_process with that handle, and that
\* stop_process finds it; when no process id was obtained the call returns
\* the handle-acquisition error and leaves the table unchanged.
C19_BackgroundRecordsItsHandle ==
    [](LaunchIsRecorded /\ StopFindsHandle) /\ [][HandleStaysUntilStopped]_vars

\* A background launch succeeded and, later, stop_process with the handle
\* it returned found the process and stopped it.
C19_Witness ==
    /\ ret.op = "stop_process"
    /\ ret.handle \in DOMAIN ret.before.active_processes
    /\ ret.value = TRUE
    /\ ret.handle \notin DOMAIN executors[ret.executor].active_processes


----------------------------------------------------------------------------
(* Claims about the comparison pass, checked under SpecFanout *)

\* The returned fan-out holds a test summary for both platforms.
BothPlatformsHaveSummaries ==
    /\ ReturnedFanout
    /\ ret.handler = "test"
    /\ {"real_robot", "gazebo"} \subseteq DOMAIN ret.results
    /\ ~IsErrorEntry(ret.results["real_robot"])
    /\ ~IsErrorEntry(ret.results["gazebo"])

\* C20: when both platforms of a fan-out have a summary, the analysis holds
\* a comparison whose 'equal' is true exactly when the two overall success
\* flags are the same and whose 'difference' is the real robot's number of
\* attempted steps minus the simulator's.
C20_ComparisonReportsParityAndDifference ==
    BothPlatformsHaveSummaries =>
        LET real == ret.results["real_robot"]
            gazebo == ret.results["gazebo"]
        IN  /\ "comparison" \in DOMAIN ret.analysis
            /\ ret.analysis.comparison.success_comparison.equal
                   = (real.success = gazebo.success)
            /\ ret.analysis.comparison.steps_comparison.difference
                   = real.summary.total_steps - gazebo.summary.total_steps


----------------------------------------------------------------------------
(* Claims about status, timestamps and the simulation flag, checked under Spec *)

\* C21: get_status never raises, whatever state the adapter is in, and its
\* record holds the connected flag, the name and the last-update timestamp
\* of the adapter.
C21_GetStatusNeverRaises ==
    ret.op = "get_status" =>
        /\ ~ret.status.raised
        /\ {"connected", "name", "last_update"} \subseteq DOMAIN ret.status.value
        /\ ret.status.value.connected = ret.before.is_connected
        /\ ret.status.value.name = ret.before.name
        /\ ret.status.value.last_update = ret.before.last_update

\* get_status was asked on a real-mode adapter whose session had silently
\* dropped: the uptime probe raised and the record came back all the same.
C21_Witness ==
    /\ ret.op = "get_status"
    /\ ret.platform = "real_robot"
    /\ ret.before.is_connected /\ ret.before.ssh_client /\ ~ret.before.simulation_mode
    /\ ret.env.uptime = "raises"
    /\ ~ret.status.raised
    /\ ret.status.value.uptime = "N/A"


\* C22: every connection state transition stamps last_update with the time
\* of the operation that made it: a connect that returned True, a
\* disconnect, and the disconnect/connect of the auto-recovery inside
\* execute_command; and a connected adapter always has last_update set.
C22_TransitionsStampLastUpdate ==
    /\ \A p \in Platforms :
           (Live(p) /\ adapters[p].is_connected) => adapters[p].last_update # NoTime
    /\ (ret.op = "connect" /\ ret.value) => After.last_update = ret.t
    /\ ret.op = "disconnect" => After.last_update = ret.t
    /\ (ReturnedCommand /\ Count(ret.events, "disconnect") > 0) =>
           After.last_update = ret.t

\* The auto-recovery of execute_command has disconnected and reconnected an
\* adapter at a later time than its last update, and the timestamp moved.
C22_Witness ==
    /\ ProbeFailed
    /\ Count(ret.events, "connect") = 1
    /\ After.is_connected
    /\ ret.before.last_update < ret.t
    /\ After.last_update = ret.t


\* The example of the specification: test "t1" with the single step
\* {name: "boot", commands: ["echo ok"]}, returned by a connected adapter in
\* simulation mode.
ExampleReturned ==
    /\ ReturnedSummary
    /\ ret.config = [test_id |-> "t1", steps |-> << StepWithCommands(<<CmdEcho>>) >>]
    /\ After.is_connected /\ After.simulation_mode

\* C23: the example yields a summary with overall success true, one step in
\* total, one successful step and a success ratio of 1.
C23_ExampleScenario ==
    ExampleReturned =>
        /\ ret.value.success
        /\ ret.value.summary.total_steps = 1
        /\ ret.value.summary.successful_steps = 1
        /\ ret.value.summary.success_rate = [num |-> 1, den |-> 1]
        /\ Len(ret.value.results) = 1
        /\ ret.value.results[1].step = "boot"

\* The example has been run on a simulated Gazebo adapter.
C23_Witness ==
    /\ ExampleReturned
    /\ ret.value.success
    /\ ret.platform = "gazebo"


\* The positions of the entries of a summary with success true.
SuccessfulPositions(results) == { i \in 1..Len(results) : results[i].success }

\* C24: in every summary execute_test returns, total_steps is the number of
\* step results, successful_steps is the number of them with success true
\* and lies between 0 and total_steps, and the success ratio is
\* successful_steps / total_steps, a value in [0,1], and 0 without steps.
C24_SummaryCounts ==
    ReturnedSummary =>
        LET s == ret.value.summary
            results == ret.value.results
        IN  /\ s.total_steps = Len(results)
            /\ s.successful_steps = Cardinality(SuccessfulPositions(results))
            /\ 0 <= s.successful_steps /\ s.successful_steps <= s.total_steps
            /\ s.success_rate.den > 0
            /\ 0 <= s.success_rate.num /\ s.success_rate.num <= s.success_rate.den
            /\ s.success_rate.num * s.total_steps
                   = s.successful_steps * s.success_rate.den
            /\ (s.total_steps = 0 => s.success_rate.num = 0)

\* A summary of two steps of which exactly one succeeded.
C24_Witness ==
    /\ ReturnedSummary
    /\ ret.value.summary.total_steps = 2
    /\ ret.value.summary.successful_steps = 1
    /\ ret.value.summary.success_rate = [num |-> 1, den |-> 2]


----------------------------------------------------------------------------
(* Claims about the routes, checked under SpecFanout *)

\* A connect route turned the request down because the platform is disabled.
RefusedDisabled ==
    /\ ret.op = "route_connect"
    /\ ~(ret.before # NoAdapter /\ ret.before.is_connected)
    /\ ~Get(ret.config, "enabled", FALSE)

\* get_test_case was asked for a test case the readable file does not hold.
UnknownTestCase ==
    /\ ret.op = "get_test_case"
    /\ ret.file.readable
    /\ ret.test_name \notin DOMAIN Get(ret.file.content, "test_cases", EmptyDict)

----------------------------------------------------------------------------
(* Claims about the init command and the simulation flag, checked under Spec *)

\* The last call sent an init command to the real session and the session
\* raised an error that is no timeout while running it.
InitCommandRaised ==
    /\ RanOnSession
    /\ IsInitCommand(ret.command)
    /\ ret.env.run.exec = "raises"

KeepsSimulationMode(p) ==
    (Live(p) /\ adapters[p].simulation_mode) =>
        (Live(p)' /\ adapters'[p].simulation_mode)

\* C27: once simulation_mode of an adapter instance is true, no connect,
\* disconnect, get_status, execute_command or execute_test step on that
\* instance sets it back to false.
C27_SimulationModeIsSticky ==
    [][\A p \in Platforms : KeepsSimulationMode(p)]_vars

\* An adapter constructed in real mode fell back to simulation, was
\* disconnected and connected again, and is still in simulation mode.
C27_Witness ==
    /\ ret.op = "connect" /\ ret.value
    /\ ret.before.simulation_mode
    /\ ~ret.before.is_connected
    /\ ret.before.last_update # NoTime
    /\ After.simulation_mode


\* C28: connect always returns, and it has called itself at most once: the
\* call and its recursive calls number at most two, and a second call is
\* the fallback that switched a real-mode adapter to simulation and
\* returned True.
C28_ConnectRecursesAtMostOnce ==
    ret.op = "connect" =>
        /\ ret.calls \in {1, 2}
        /\ ret.value \in BOOLEAN
        /\ ret.calls = 2 =>
               /\ ~ret.before.simulation_mode
               /\ After.simulation_mode
               /\ ret.value

\* A Gazebo connect fell back to simulation through one recursive call.
C28_Witness ==
    /\ ret.op = "connect" /\ ret.platform = "gazebo"
    /\ ret.env # "found"
    /\ ret.calls = 2
    /\ After.is_connected


----------------------------------------------------------------------------
(* The run-test routes of real_robot.py and gazebo.py and their background
   task *)

\* {**a, **b}
Merge(a, b) ==
    [k \in DOMAIN a \cup DOMAIN b |-> IF k \in DOMAIN b THEN b[k] ELSE a[k]]

\* The test cases load_test_config returns: none when the file cannot be
\* read, or the ones of config/tests.yaml.
TestCaseTables ==
    { EmptyDict, [boot_test |-> [steps |-> << StepWithCommand(CmdEcho) >>]] }

\* The bodies of POST /run-test: with or without 'test_id', with or without
\* 'test_name', and with inline 'steps', inline 'commands' or neither.
RunTestRequests ==
    LET ids == { EmptyDict, [test_id |-> "t1"] }
        named == ids \cup { Put(r, "test_name", "boot_test") : r \in ids }
    IN  named
        \cup { Put(r, "steps", << StepWithCommand(CmdEcho) >>) : r \in named }
        \cup { Put(r, "commands", << CmdEcho >>) : r \in named }

\* f"test_{int(datetime.now().timestamp())}"
GeneratedId(t) == <<"test_1", "test_2", "test_3", "test_4">>[t]

\* POST /run-test up to  background_tasks.add_task : the status, the test_id
\* of the response and the configuration the task will hand to execute_test.
\* real_robot.py merges the test case of the file into a request without
\* inline commands or steps; gazebo.py passes the request as it came.
RunTestRoute(p, adapter, request, table) ==
    IF adapter = NoAdapter \/ ~adapter.is_connected
    THEN [status |-> 400]
    ELSE LET test_id == Get(request, "test_id", GeneratedId(Clock(adapter)))
             test_name == Get(request, "test_name", "unknown_test")
             inline == "commands" \in DOMAIN request \/ "steps" \in DOMAIN request
         IN  [status |-> 200,
              test_id |-> test_id,
              config |-> IF p = "real_robot" /\ ~inline
                         THEN Merge([test_id |-> test_id, test_name |-> test_name],
                                    Get(table, test_name, EmptyDict))
                         ELSE request]

\* The background task between add_task and its first statement.
Queued(test_id, config) ==
    [active |-> TRUE, stage |-> "queued", test_id |-> test_id, config |-> config,
     left |-> << >>, results |-> << >>, calls |-> << >>,
     self |-> NoAdapter, shared |-> FALSE]

\* The task is inside execute_test.
InExecuteTest(p) == test[p].active /\ test[p].stage = "running"

\* The adapter object the running execute_test is bound to: the one the
\* module global still names, or the one it named when the task began.
TaskSelf(p) == IF test[p].shared THEN adapters[p] ELSE test[p].self

\* The module global of route module p is rebound (to a new adapter or to
\* None): a running execute_test keeps the object it was called on.
Rebind(p, object) ==
    IF InExecuteTest(p) /\ test[p].shared
    THEN [test EXCEPT ![p] = [test[p] EXCEPT !.self = object, !.shared = FALSE]]
    ELSE test

\* The route module this behaviour calls.
Serves(p) == fanout.handler = p

\* POST /connect while a task may be pending.
RunTestConnect(p) ==
    /\ Serves(p)
    /\ \E config \in RouteConfigs(p), env \in ConnectEnvs([kind |-> p]) :
        LET old == adapters[p]
            c == RouteConnectOutcome(p, old, config, env)
            created == /\ ~(old # NoAdapter /\ old.is_connected)
                       /\ Get(config, "enabled", FALSE)
        IN  /\ adapters' = [adapters EXCEPT ![p] = c.adapter]
            /\ test' = IF created THEN Rebind(p, old) ELSE test
            /\ ret' = [op |-> "route_connect", platform |-> p, status |-> c.status]
    /\ UNCHANGED <<executors, platform_adapters, fanout, data_storage>>

\* POST /disconnect while a task may be pending: the adapter is disconnected
\* and the module global set to None.
RunTestDisconnect(p) ==
    /\ Serves(p)
    /\ LET old == adapters[p]
           d == RouteDisconnectOutcome(old)
       IN  /\ adapters' = [adapters EXCEPT ![p] = d.adapter]
           /\ test' = IF old = NoAdapter THEN test
                      ELSE Rebind(p, disconnect(old, Clock(old)).self)
           /\ ret' = [op |-> "route_disconnect", platform |-> p, status |-> d.status]
    /\ UNCHANGED <<executors, platform_adapters, fanout, data_storage>>

\* POST /run-test: the request is refused, or the task is queued and the
\* response carries success true and the test_id.
RunTest(p) ==
    /\ Serves(p) /\ ~test[p].active
    /\ \E request \in RunTestRequests, table \in TestCaseTables :
        LET r == RunTestRoute(p, adapters[p], request, table) IN
        IF r.status = 200
        THEN /\ test' = [test EXCEPT ![p] = Queued(r.test_id, r.config)]
             /\ ret' = [op |-> "run_test", platform |-> p, status |-> 200,
                        request |-> request, test_id |-> r.test_id]
        ELSE /\ test' = test
             /\ ret' = [op |-> "run_test", platform |-> p, status |-> r.status,
                        request |-> request]
    /\ UNCHANGED <<adapters, executors, platform_adapters, fanout, data_storage>>

\* run_test_task begins: it reads the module global and calls execute_test
\* on it.  When the global is None the attribute lookup raises, the handler
\* of the task logs the error and the task ends.
TaskStart(p) ==
    /\ Serves(p) /\ test[p].active /\ test[p].stage = "queued"
    /\ IF adapters[p] = NoAdapter
       THEN /\ test' = [test EXCEPT ![p] = Idle]
            /\ ret' = [op |-> "run_test_task", platform |-> p,
                       test_id |-> test[p].test_id, outcome |-> "raised"]
       ELSE /\ test' = [test EXCEPT ![p] =
                           [test[p] EXCEPT !.stage = "running", !.shared = TRUE,
                                           !.left = StepsOf(test[p].config)]]
            /\ ret' = ret
    /\ UNCHANGED <<adapters, executors, platform_adapters, fanout, data_storage>>

\* One iteration of the loop of the task's execute_test.
TaskStep(p) ==
    /\ Serves(p) /\ InExecuteTest(p) /\ test[p].left # << >>
    /\ LET self == TaskSelf(p) IN
       \E env \in FanoutEnvs(self, test[p]) :
         LET x == LoopIteration(self, test[p], env, Clock(self)) IN
         IF test[p].shared
         THEN /\ adapters' = [adapters EXCEPT ![p] = x.self]
              /\ test' = [test EXCEPT ![p] = x.run]
         ELSE /\ adapters' = adapters
              /\ test' = [test EXCEPT ![p] = [x.run EXCEPT !.self = x.self]]
    /\ UNCHANGED <<ret, executors, platform_adapters, fanout, data_storage>>

\* execute_test returns its summary and the task hands it to
\* save_test_result.
TaskSave(p) ==
    /\ Serves(p) /\ InExecuteTest(p) /\ test[p].left = << >>
    /\ LET result == TestSummary(TaskSelf(p), test[p].config, test[p].results) IN
       \E db \in DbEnvs :
         LET s == save_test_result(data_storage, result, db) IN
         /\ data_storage' = s.store
         /\ ret' = [op |-> "run_test_task", platform |-> p,
                    test_id |-> test[p].test_id,
                    outcome |-> IF s.value THEN "saved" ELSE "db_error",
                    stored |-> result.test_id]
    /\ test' = [test EXCEPT ![p] = Idle]
    /\ UNCHANGED <<adapters, executors, platform_adapters, fanout>>

\* The process has been started with no adapter; the requests of one
\* behaviour go to one route module.
InitRunTest ==
    /\ adapters = [q \in Platforms |-> NoAdapter]
    /\ test = [q \in Platforms |-> Idle]
    /\ ret = [op |-> "none"]
    /\ executors = << >>
    /\ platform_adapters = << >>
    /\ \E p \in Platforms : fanout = FanoutIdle(p, FALSE)
    /\ data_storage = EmptyDict

NextRunTest ==
    \E p \in Platforms :
        \/ RunTestConnect(p)
        \/ RunTestDisconnect(p)
        \/ RunTest(p)
        \/ TaskStart(p)
        \/ TaskStep(p)
        \/ TaskSave(p)

SpecRunTest == InitRunTest /\ [][NextRunTest]_vars

\* The event loop runs every queued background task to its end.
SpecRunTestFair ==
    /\ SpecRunTest
    /\ \A p \in Platforms :
          WF_vars(TaskStart(p)) /\ WF_vars(TaskStep(p)) /\ WF_vars(TaskSave(p))

----------------------------------------------------------------------------
(* Claims about the run-test routes, checked under SpecRunTest *)

\* The background task has saved its result.
TaskSaved == ret.op = "run_test_task" /\ ret.outcome = "saved"

\* C29: the result of a test started through a run-test route is stored
\* under the test_id the route returned, whatever the request carried.
C29_StoredUnderReturnedId ==
    TaskSaved =>
        /\ ret.stored = ret.test_id
        /\ RowsOf(data_storage, ret.test_id) # {}


\* A run-test route has accepted a test on platform p and its task has not
\* ended.
Accepted(p) == test[p].active

\* The task of platform p has ended at save_test_result: the row is written,
\* or the database refused it.
ReachedTheStore(p) ==
    /\ ret.op = "run_test_task" /\ ret.platform = p
    /\ ret.outcome \in {"saved", "db_error"}

\* C30: every test a run-test route accepted eventually has its result
\* handed to the result store, whatever route calls arrive on the platform
\* before or while its task runs.
C30_AcceptedTestIsEventuallySaved ==
    \A p \in Platforms : Accepted(p) ~> ReachedTheStore(p)


----------------------------------------------------------------------------
(* The application as a whole: main.py's registry next to the module
   globals of the per-platform routes *)

\* GET /api/status of main.py: one entry per adapter of platform_adapters.
api_get_status(registry, env) ==
    [name \in DOMAIN registry |->
        LET adapter == registry[name]
            platform_status == get_status(adapter, env)
        IN  IF platform_status.raised
            THEN [name |-> adapter.name, connected |-> FALSE, error |-> "exception"]
            ELSE [name |-> adapter.name, connected |-> adapter.is_connected,
                  status |-> platform_status.value,
                  last_update |-> adapter.last_update]]

\* The behaviour is one of the whole application.
ServesApp == fanout.handler = "app"

\* main.py startup_event, once, before any request is served.
AppStartup ==
    /\ ServesApp /\ ~fanout.started
    /\ \E file \in PlatformFiles, ssh \in SshConnectEnvs, which \in WhichEnvs :
        platform_adapters' = StartupRegistry(file, ssh, which)
    /\ fanout' = FanoutIdle("app", TRUE)
    /\ ret' = [op |-> "startup", platform |-> "all"]
    /\ UNCHANGED <<adapters, test, executors, data_storage>>

\* POST /connect of real_robot.py and gazebo.py after the startup.
AppRouteConnect(p) ==
    /\ ServesApp /\ fanout.started
    /\ \E config \in RouteConfigs(p), env \in ConnectEnvs([kind |-> p]) :
        LET c == RouteConnectOutcome(p, adapters[p], config, env) IN
        /\ adapters' = [adapters EXCEPT ![p] = c.adapter]
        /\ ret' = [op |-> "route_connect", platform |-> p, status |-> c.status]
    /\ UNCHANGED <<test, executors, platform_adapters, fanout, data_storage>>

\* POST /disconnect of real_robot.py and gazebo.py after the startup.
AppRouteDisconnect(p) ==
    /\ ServesApp /\ fanout.started
    /\ LET d == RouteDisconnectOutcome(adapters[p]) IN
        /\ adapters' = [adapters EXCEPT ![p] = d.adapter]
        /\ ret' = [op |-> "route_disconnect", platform |-> p, status |-> d.status]
    /\ UNCHANGED <<test, executors, platform_adapters, fanout, data_storage>>

\* GET /api/status after the startup; the record keeps which call came
\* just before it.
AppStatus ==
    /\ ServesApp /\ fanout.started
    /\ ret.op # "api_status"
    /\ \E env \in StatusEnvs :
        ret' = [op |-> "api_status", platform |-> "all",
                previous |-> ret.op, previous_platform |-> ret.platform,
                status |-> api_get_status(platform_adapters, env)]
    /\ UNCHANGED <<adapters, test, executors, platform_adapters, fanout, data_storage>>

\* The test cases load_test_config returns to the execute route: none, one
\* without a 'commands' list, or one with a list of up to MaxCommands
\* commands.
CaseTables ==
    TestCaseTables
    \cup { [boot_test |-> [commands |-> q]] : q \in SeqsUpTo(Commands, MaxCommands) }

\* The 'command' of a request to POST /execute: empty, the name of a test
\* case, or a command line.
ExecuteRequests == { NoCommand, <<"boot_test">>, CmdEcho }

\* cmd in test_config
IsCaseName(table, cmd) == Len(cmd) = 1 /\ cmd[1] \in DOMAIN table

\* What the backend answers to one command of the route: it runs to the
\* end and exits with the given code.
CaseEnv(code) ==
    [probe |-> "alive", reconnect |-> "ok",
     run |-> RunEnv("ok", "ready", "ok", "returns", code)]

\* A loop over the commands of a test case that goes on after a failure.
RECURSIVE RunCase_Continuing(_, _, _)
RunCase_Continuing(self, commands, codes) ==
    IF commands = << >> THEN [self |-> self, results |-> << >>, calls |-> << >>]
    ELSE LET x == execute_command(self, Head(commands), CaseEnv(Head(codes)), Clock(self))
             rest == RunCase_Continuing(x.self, Tail(commands), Tail(codes))
         IN  [self |-> rest.self,
              results |-> <<x.result>> \o rest.results,
              calls |-> <<Head(commands)>> \o rest.calls]

\* real_robot.py 155-166: the commands of the test case are handed to
\* execute_command one after the other; the loop breaks after the first
\* result without success.
RECURSIVE RunCase(_, _, _)
RunCase(self, commands, codes) ==
    IF commands = << >> THEN [self |-> self, results |-> << >>, calls |-> << >>]
    ELSE LET x == execute_command(self, Head(commands), CaseEnv(Head(codes)), Clock(self)) IN
         IF ~x.result.success
         THEN [self |-> x.self, results |-> <<x.result>>, calls |-> <<Head(commands)>>]
         ELSE LET rest == RunCase(x.self, Tail(commands), Tail(codes))
              IN  [self |-> rest.self,
                   results |-> <<x.result>> \o rest.results,
                   calls |-> <<Head(commands)>> \o rest.calls]

\* all(r.get("success", False) for r in results)
AllResultsSucceeded(results) == \A i \in 1 .. Len(results) : results[i].success

\* POST /execute of real_robot.py: 400 without a connected adapter or
\* without a command; the commands of a predefined test case, or the single
\* command, otherwise.
RouteExecuteOutcome(adapter, cmd, table, codes) ==
    IF adapter = NoAdapter \/ ~adapter.is_connected
    THEN [status |-> 400, adapter |-> adapter, kind |-> "refused"]
    ELSE IF cmd = NoCommand
    THEN [status |-> 400, adapter |-> adapter, kind |-> "refused"]
    ELSE IF IsCaseName(table, cmd)
    THEN LET commands == Get(table[cmd[1]], "commands", << >>)
             run == RunCase(adapter, commands, codes)
         IN  [status |-> 200, adapter |-> run.self, kind |-> "test_case",
              commands |-> commands, calls |-> run.calls, results |-> run.results,
              success |-> AllResultsSucceeded(run.results)]
    ELSE LET x == execute_command(adapter, cmd, CaseEnv(codes[1]), Clock(adapter))
         IN  [status |-> 200, adapter |-> x.self, kind |-> "single",
              commands |-> <<cmd>>, calls |-> <<cmd>>, results |-> <<x.result>>,
              success |-> x.result.success]

\* The number of commands the route can hand to the backend.
AnswersNeeded(adapter, cmd, table) ==
    IF adapter = NoAdapter \/ ~adapter.is_connected \/ cmd = NoCommand THEN 0
    ELSE IF IsCaseName(table, cmd) THEN Len(Get(table[cmd[1]], "commands", << >>))
    ELSE 1

\* POST /execute of real_robot.py after the startup.
AppRouteExecute ==
    /\ ServesApp /\ fanout.started
    /\ \E cmd \in ExecuteRequests, table \in CaseTables :
       \E codes \in [1 .. AnswersNeeded(adapters["real_robot"], cmd, table) -> {0, 1}] :
        LET r == RouteExecuteOutcome(adapters["real_robot"], cmd, table, codes) IN
        /\ adapters' = [adapters EXCEPT !["real_robot"] = r.adapter]
        /\ ret' = [op |-> "route_execute", platform |-> "real_robot",
                   before |-> adapters["real_robot"], codes |-> codes,
                   outcome |-> [r EXCEPT !.adapter = NoAdapter]]
    /\ UNCHANGED <<test, executors, platform_adapters, fanout, data_storage>>

InitApp ==
    /\ adapters = [q \in Platforms |-> NoAdapter]
    /\ test = [q \in Platforms |-> Idle]
    /\ ret = [op |-> "none", platform |-> "all"]
    /\ executors = << >>
    /\ platform_adapters = << >>
    /\ fanout = FanoutIdle("app", FALSE)
    /\ data_storage = EmptyDict

NextApp ==
    \/ AppStartup
    \/ \E p \in Platforms : AppRouteConnect(p)
    \/ \E p \in Platforms : AppRouteDisconnect(p)
    \/ AppRouteExecute
    \/ AppStatus

SpecApp == InitApp /\ [][NextApp]_vars

----------------------------------------------------------------------------
(* Claims about the application, checked under SpecApp *)

\* The global status query was answered right after a route-level
\* disconnect of a platform.
StatusAfterRouteDisconnect ==
    /\ ret.op = "api_status"
    /\ ret.previous = "route_disconnect"

\* C31: the adapter the global status reports is the one the routes connect
\* and disconnect: right after a route-level disconnect of a platform the
\* global status does not report that platform as connected.
C31_SingleSharedAdapter ==
    StatusAfterRouteDisconnect =>
        \/ ret.previous_platform \notin DOMAIN ret.status
        \/ ~ret.status[ret.previous_platform].connected


----------------------------------------------------------------------------
(* Claims about the SSH session of connect, checked under Spec *)

\* The last call was a connect that created an SSH client.
ConnectMadeClient == ret.op = "connect" /\ ret.client # "none"

\* C32: every SSH client opened by RealRobotAdapter.connect is, when connect
\* returns, stored as the adapter's ssh_client of a connected real-mode
\* adapter, or closed (or was never opened because the handshake failed).
C32_NoSessionLeak ==
    ConnectMadeClient =>
        /\ ret.client \in {"stored", "closed", "never_opened"}
        /\ ret.client = "stored" =>
               After.is_connected /\ After.ssh_client /\ ~After.simulation_mode


\* The execute route has run a predefined test case.
RanTestCase == ret.op = "route_execute" /\ ret.outcome.kind = "test_case"

\* C33: given the name of a predefined test case, the execute route runs the
\* case's commands in order and stops at the first failing one: the results
\* answer exactly the commands up to and including the first failure, no
\* later command is executed, and the overall success is true iff every
\* listed command ran and succeeded.
C33_RouteCaseFailsFast ==
    RanTestCase =>
        LET o == ret.outcome
            n == Len(o.results)
        IN  /\ n <= Len(o.commands)
            /\ o.calls = SubSeq(o.commands, 1, n)
            /\ \A i \in 1 .. n - 1 : o.results[i].success
            /\ n < Len(o.commands) => ~o.results[n].success
            /\ o.success <=> (n = Len(o.commands) /\ AllResultsSucceeded(o.results))

\* A test case of two commands stopped after its first command failed on a
\* connected real-mode adapter.
C33_Witness ==
    /\ RanTestCase
    /\ Len(ret.outcome.commands) = 2
    /\ Len(ret.outcome.results) = 1
    /\ ~ret.outcome.results[1].success
    /\ ~ret.outcome.success
    /\ ~ret.before.simulation_mode


----------------------------------------------------------------------------
(* Claims about the base class's summary, checked under SpecBase *)

\* Every command of every step of the returned run has a result with
\* success true.
EveryCommandSucceeded ==
    \A i \in DOMAIN ret.config.steps :
        /\ i \in DOMAIN ret.value.result.results
        /\ LET results == ret.value.result.results[i].results
               commands == Get(ret.config.steps[i], "commands", << >>)
           IN  /\ Len(results) = Len(commands)
               /\ \A k \in DOMAIN results : results[k].success

\* C34: execute_test of the base class on a specification given as steps
\* reports success true iff every command of every step succeeded, and
\* 'steps' is the number of steps that were attempted.
C34_BaseSuccessIffAllCommands ==
    ReturnedBaseSteps =>
        /\ ret.value.result.success <=> EveryCommandSucceeded
        /\ ret.value.result.steps = Len(ret.value.result.results)


----------------------------------------------------------------------------
(* Claims about stopping background processes, checked under SpecExec *)

\* The last call was a stop_process that returned True.
StoppedHandle == ret.op = "stop_process" /\ ret.value

\* C35: after stop_process(h) has returned True, h is not in the executor's
\* table, a stop_process(h) that follows at once returns False whatever the
\* backend answers, and every other handle is in the table as before.
C35_HandleStoppedAtMostOnce ==
    StoppedHandle =>
        LET self == executors[ret.executor]
            before == ret.before.active_processes
            table == self.active_processes
        IN  /\ ret.handle \in DOMAIN before
            /\ ret.handle \notin DOMAIN table
            /\ \A env \in ExecEnvs : ~stop_process(self, ret.handle, env).value
            /\ DOMAIN table = DOMAIN before \ {ret.handle}
            /\ \A h \in DOMAIN table : table[h] = before[h]

\* A handle was stopped while the table held a second one, on either
\* executor.
C35_Witness ==
    /\ StoppedHandle
    /\ Cardinality(DOMAIN ret.before.active_processes) = 2
    /\ Cardinality(DOMAIN executors[ret.executor].active_processes) = 1
    /\ ret.executor = "local"


----------------------------------------------------------------------------
(* The two executors side by side: the same launches and the same stops,
   with the same answers of the backend, on a LocalExecutor and an
   SSHExecutor *)

\* The process ids of the background commands an executor's table holds:
\* the keys of LocalExecutor's table, the values of SSHExecutor's.
LivePids(self) ==
    IF self.kind = "local" THEN DOMAIN self.active_processes
    ELSE { self.active_processes[h] : h \in DOMAIN self.active_processes }

\* The handle under which an executor knows the process pid: the pid itself
\* for LocalExecutor, the process_id that maps to it for SSHExecutor (0, a
\* handle never handed out, when there is none).
HandleOf(self, pid) ==
    IF self.kind = "local" THEN pid
    ELSE IF pid \in LivePids(self)
    THEN CHOOSE h \in DOMAIN self.active_processes : self.active_processes[h] = pid
    ELSE 0

\* The answers with which a background launch succeeds on both executors.
LaunchEnvs ==
    { env \in ExecEnvs : env.outcome = "exits" /\ env.code = 0 /\ IsDigit(env.stdout) }

\* Both executors launch the same command and the backend hands both the
\* same new process id.
PairLaunch ==
    /\ DOMAIN executors = ExecutorNames
    /\ \A e \in ExecutorNames : Launched(executors[e]) < MaxLaunches
    /\ \E command \in Commands, env \in LaunchEnvs :
        /\ \A e \in ExecutorNames : ParseInt(env.stdout) \notin LivePids(executors[e])
        /\ executors' = [e \in ExecutorNames |->
                            execute_background(executors[e], command, env).self]
        /\ ret' = [op |-> "pair_launch", pid |-> ParseInt(env.stdout)]
    /\ UNCHANGED <<adapters, test, platform_adapters, fanout, data_storage>>

\* Both executors are asked to stop the same process and the kill command
\* meets the same answer on both.
PairStop ==
    /\ DOMAIN executors = ExecutorNames
    /\ \E pid \in Handles, env \in ExecEnvs :
        LET stopped == [e \in ExecutorNames |->
                           stop_process(executors[e], HandleOf(executors[e], pid), env)]
        IN  /\ executors' = [e \in ExecutorNames |-> stopped[e].self]
            /\ ret' = [op |-> "pair_stop", pid |-> pid, env |-> env,
                       before |-> executors,
                       value |-> [e \in ExecutorNames |-> stopped[e].value]]
    /\ UNCHANGED <<adapters, test, platform_adapters, fanout, data_storage>>

InitPair ==
    /\ adapters = [q \in Platforms |-> NoAdapter]
    /\ test = [q \in Platforms |-> Idle]
    /\ ret = [op |-> "none"]
    /\ executors = [e \in ExecutorNames |-> NewExecutor(e)]
    /\ platform_adapters = << >>
    /\ fanout = NoFanout
    /\ data_storage = EmptyDict

NextPair == PairLaunch \/ PairStop

SpecPair == InitPair /\ [][NextPair]_vars

\* C36: after the same successful launches and the same stops with the same
\* kill outcomes, LocalExecutor and SSHExecutor have returned the same
\* boolean from stop_process and hold the same live processes.
C36_OneStopContract ==
    /\ LivePids(executors["local"]) = LivePids(executors["ssh"])
    /\ ret.op = "pair_stop" => ret.value["local"] = ret.value["ssh"]


----------------------------------------------------------------------------
(* Claims about summaries without work, checked under Spec *)

\* C37: a summary of execute_test with overall success true has at least
\* one step and a success ratio of 1.
C37_NoSuccessForNoWork ==
    (ReturnedSummary /\ ret.value.success) =>
        /\ ret.value.summary.total_steps >= 1
        /\ ret.value.summary.success_rate.num = ret.value.summary.success_rate.den


----------------------------------------------------------------------------
(* ConfigValidator.sanitize_command, utils/validator.py lines 131-146 *)

\* Longest command string given to sanitize_command, in characters.
MaxChars == 4

\* The characters of a command string: a removed character, the two whose
\* doubling is looked for at the start, another removed character, white
\* space and a harmless letter.
CommandChars == { ";", "&", "|", "$", " ", "a" }

CommandStrings == SeqsUpTo(CommandChars, MaxChars)

\* str.strip(): white space removed at both ends.
RECURSIVE LStrip(_)
LStrip(s) == IF s # << >> /\ Head(s) = " " THEN LStrip(Tail(s)) ELSE s

RECURSIVE RStrip(_)
RStrip(s) ==
    IF s # << >> /\ s[Len(s)] = " " THEN RStrip(SubSeq(s, 1, Len(s) - 1)) ELSE s

Strip(s) == RStrip(LStrip(s))

\* str.startswith(char) for a two-character  char  made of c twice.
StartsWithPair(s, c) == Len(s) >= 2 /\ s[1] = c /\ s[2] = c

\* sanitized.replace(char, ''): every occurrence of a one-character string.
ReplaceAll(s, c) == SelectSeq(s, LAMBDA x : x # c)

\* sanitized.replace(char, '', 1): the first occurrence of c twice.
ReplaceFirstPair(s, c) ==
    LET at == { i \in 1 .. Len(s) - 1 : s[i] = c /\ s[i + 1] = c }
    IN  IF at = {} THEN s
        ELSE LET i == CHOOSE k \in at : \A j \in at : k <= j
             IN  SubSeq(s, 1, i - 1) \o SubSeq(s, i + 2, Len(s))

\* The grave accent (U+0060) of dangerous_chars, by name.
GraveAccent == "grave"

\* Lines 139-142: the branch for '&&' and '||'.
DropLeadingPair(s, c) ==
    IF StartsWithPair(Strip(s), c) THEN ReplaceFirstPair(s, c) ELSE s

\* A sanitizer that takes every doubled operator off the start.
RECURSIVE DropLeadingPair_Repeated(_,_)
DropLeadingPair_Repeated(s, c) ==
    IF StartsWithPair(Strip(s), c)
    THEN DropLeadingPair_Repeated(ReplaceFirstPair(s, c), c)
    ELSE s

\* Lines 132-146, the characters taken in the order of dangerous_chars:
\* ';', '&&', '||', '`', '$', '>', '<', '|'.
sanitize_command(command) ==
    LET s1 == ReplaceAll(command, ";")
        s2 == DropLeadingPair(s1, "&")
        s3 == DropLeadingPair(s2, "|")
        s4 == ReplaceAll(ReplaceAll(ReplaceAll(ReplaceAll(s3, GraveAccent), "$"), ">"), "<")
        s5 == ReplaceAll(s4, "|")
    IN  Strip(s5)

\* A caller holding a command string sanitizes it.
SanitizeCommand ==
    /\ ret.op = "input"
    /\ ret' = [op |-> "sanitize_command", command |-> ret.command,
               passes |-> ret.passes + 1,
               value |-> sanitize_command(ret.command)]
    /\ UNCHANGED <<adapters, test, executors, platform_adapters, fanout, data_storage>>

\* The caller passes the sanitized string on as the next input;  passes
\* counts the calls made on the way from the first string.
SanitizeAgain ==
    /\ ret.op = "sanitize_command"
    /\ ret.value # ret.command
    /\ ret' = [op |-> "input", command |-> ret.value, passes |-> ret.passes]
    /\ UNCHANGED <<adapters, test, executors, platform_adapters, fanout, data_storage>>

InitSanitize ==
    /\ adapters = [q \in Platforms |-> NoAdapter]
    /\ test = [q \in Platforms |-> Idle]
    /\ ret \in [op : {"input"}, command : CommandStrings, passes : {0}]
    /\ executors = [e \in ExecutorNames |-> NewExecutor(e)]
    /\ platform_adapters = << >>
    /\ fanout = NoFanout
    /\ data_storage = EmptyDict

NextSanitize == SanitizeCommand \/ SanitizeAgain

SpecSanitize == InitSanitize /\ [][NextSanitize]_vars

Sanitized == ret.op = "sanitize_command"

\* The characters sanitize_command is to leave out.
Forbidden == { ";", GraveAccent, "$", ">", "<", "|" }

\* C39: the output of sanitize_command holds none of ; ` $ > < | , does not
\* start with && or ||, and is returned unchanged when sanitized again.
C39_SanitizeIdempotentAndComplete ==
    Sanitized =>
        /\ \A i \in 1 .. Len(ret.value) : ret.value[i] \notin Forbidden
        /\ ~StartsWithPair(ret.value, "&")
        /\ ~StartsWithPair(ret.value, "|")
        /\ sanitize_command(ret.value) = ret.value

\* The part of C39 that the code keeps: the single characters are gone and
\* the output does not start with ||.
SanitizeRemovesSingleCharacters ==
    Sanitized =>
        /\ \A i \in 1 .. Len(ret.value) : ret.value[i] \notin Forbidden
        /\ ~StartsWithPair(ret.value, "|")


----------------------------------------------------------------------------
(* The result store by itself: data/storage.py lines 67-131 *)

\* Most rows the table holds; rows without a test_id never replace one
\* another, so their number has to be held down.
MaxRows == 3

\* The result dicts handed to save_test_result: two test ids, passed and
\* failed, and a dict without the key 'test_id'.
StoreResults ==
    [test_id : {"t1", "t2"}, platform : {"gazebo"}, success : BOOLEAN]
        \cup [platform : {"gazebo"}, success : BOOLEAN]

\* The ids asked for: the two that can be saved and one that never is.
StoreIds == {"t1", "t2", "t3"}

\* Number of rows in the table.
RECURSIVE RowCount(_)
RowCount(store) ==
    IF DOMAIN store = {} THEN 0
    ELSE LET r == CHOOSE x \in DOMAIN store : TRUE
         IN  store[r] + RowCount([x \in DOMAIN store \ {r} |-> store[x]])

\* data_storage.save_test_result(test_result);  saved  remembers, per
\* test_id, the row of the last call that returned True and whether that
\* call found another row of the id saved before it.
SaveTestResult ==
    \E test_result \in StoreResults, db \in DbEnvs :
        LET s == save_test_result(data_storage, test_result, db)
            row == Row(test_result)
        IN  /\ RowCount(s.store) <= MaxRows
            /\ data_storage' = s.store
            /\ ret' = [op |-> "save_test_result", test_id |-> row.test_id, db |-> db,
                       value |-> [found |-> s.value],
                       saved |-> IF s.value
                                 THEN Put(ret.saved, row.test_id,
                                          [row |-> row,
                                           replaced |-> /\ row.test_id \in DOMAIN ret.saved
                                                        /\ ret.saved[row.test_id].row # row])
                                 ELSE ret.saved]
            /\ UNCHANGED <<adapters, test, executors, platform_adapters, fanout>>

\* data_storage.get_test_result(test_id)
GetTestResult ==
    \E test_id \in StoreIds, db \in DbEnvs :
        /\ ret' = [op |-> "get_test_result", test_id |-> test_id, db |-> db,
                   value |-> get_test_result(data_storage, test_id, db),
                   saved |-> ret.saved]
        /\ UNCHANGED <<adapters, test, executors, platform_adapters, fanout, data_storage>>

InitStore ==
    /\ adapters = [q \in Platforms |-> NoAdapter]
    /\ test = [q \in Platforms |-> Idle]
    /\ ret = [op |-> "none", saved |-> EmptyDict]
    /\ executors = [e \in ExecutorNames |-> NewExecutor(e)]
    /\ platform_adapters = << >>
    /\ fanout = NoFanout
    /\ data_storage = EmptyDict

NextStore == SaveTestResult \/ GetTestResult

SpecStore == InitStore /\ [][NextStore]_vars

\* The database answered the SELECT of the last get_test_result.
AnsweredGet == ret.op = "get_test_result" /\ ret.db = "ok"

============================================================================
